---- MODULE Spec2Model ----
(***************************************************************************)
(* Model of the DimPy engine under src/benchmarks/dimpy: the Dimension /   *)
(* Quantity / Unit algebra (units.py), the on-the-fly Flydim / Flyquant    *)
(* algebra (flyquant.py), and the query layer and history of the parser    *)
(* (quantity_parser.py).                                                   *)
(*                                                                         *)
(* Numbers are exact rationals [n, d] in lowest terms with d > 0; the      *)
(* rounding of Python floats is not modelled.  An operation returns a      *)
(* record [status, v]: status "ok" with the value v, "NotImplemented" for  *)
(* Python's NotImplemented, or the name of the exception it raises.        *)
(***************************************************************************)
EXTENDS Integers, Sequences, FiniteSets, TLC

VARIABLES x, y, op, res, false_requests, html, history, added, deleted, readres,
          input, defined_variables, on_the_fly, dict_order, registry

vars == <<x, y, op, res, false_requests, html, history, added, deleted, readres,
          input, defined_variables, on_the_fly, dict_order, registry>>

(***************************************************************************)
(* Rational arithmetic                                                     *)
(***************************************************************************)
Abs(i) == IF i < 0 THEN -i ELSE i

RECURSIVE GCD(_, _)
GCD(a, b) == IF b = 0 THEN a ELSE GCD(b, a % b)

Rat(n, d) ==
    LET g == GCD(Abs(n), Abs(d))
        s == IF d < 0 THEN -1 ELSE 1
    IN  [n |-> (s * n) \div g, d |-> (s * d) \div g]

Zero == [n |-> 0, d |-> 1]
One == [n |-> 1, d |-> 1]
RatAdd(a, b) == Rat(a.n * b.d + b.n * a.d, a.d * b.d)
RatNeg(a) == [n |-> -a.n, d |-> a.d]
RatSub(a, b) == RatAdd(a, RatNeg(b))
RatMul(a, b) == Rat(a.n * b.n, a.d * b.d)
RatInv(a) == Rat(a.d, a.n)
RatLt(a, b) == a.n * b.d < b.n * a.d
RatLe(a, b) == a.n * b.d <= b.n * a.d

RECURSIVE IntPow(_, _)
IntPow(b, k) == IF k = 0 THEN 1 ELSE b * IntPow(b, k - 1)

(***************************************************************************)
(* Values and results                                                      *)
(***************************************************************************)
NDims == 7

EmptyFly == [k \in {} |-> 0]

Dimensionless == [i \in 1..NDims |-> 0]

\* a Python float
Num(v) == [kind |-> "num", value |-> v, dim |-> Dimensionless, fly |-> EmptyFly]
\* a Python int
Integer(i) ==
    [kind |-> "int", value |-> [n |-> i, d |-> 1], dim |-> Dimensionless,
     fly |-> EmptyFly]
Bool(b) == [kind |-> "bool", value |-> IF b THEN One ELSE Zero,
            dim |-> Dimensionless, fly |-> EmptyFly]
NoValue == [kind |-> "none", value |-> Zero, dim |-> Dimensionless, fly |-> EmptyFly]

Ok(v) == [status |-> "ok", v |-> v]
Raise(e) == [status |-> e, v |-> NoValue]
NotImplemented == Raise("NotImplemented")

IsQuantity(o) == o.kind \in {"quantity", "unit"}
IsUnit(o) == o.kind = "unit"
IsFlyquant(o) == o.kind = "flyquant"
IsFlydim(o) == o.kind = "flydim"

(***************************************************************************)
(* units.py: Dimension                                                     *)
(***************************************************************************)
Dimension__mul__(self, value) == [i \in 1..NDims |-> self[i] + value[i]]
\* a division that leaves the last exponent as it is
Dimension__div__short(self, value) ==
    [i \in 1..NDims |-> IF i = NDims THEN self[i] ELSE self[i] - value[i]]

Dimension__div__(self, value) == [i \in 1..NDims |-> self[i] - value[i]]
\* value is an integer here: the model raises to integral exponents only
Dimension__pow__(self, value) == [i \in 1..NDims |-> self[i] * value]
Dimension__eq__(self, value) ==
    Cardinality({i \in 1..NDims : self[i] = value[i]}) = 7
Dimension_is_dimensionless(self) ==
    Cardinality({i \in 1..NDims : self[i] = 0}) = 7

is_scalar_type(obj) == obj.kind \in {"num", "int"}

units_get_dimensions(obj) ==
    IF is_scalar_type(obj) THEN Dimensionless ELSE obj.dim

(***************************************************************************)
(* units.py: Quantity.  A Unit is a Quantity with a name; its display-name *)
(* multiset and compound flag only affect printing and are left out.       *)
(***************************************************************************)
Quantity_with_dimensions(value, dim) ==
    [kind |-> "quantity", value |-> value, dim |-> dim, fly |-> EmptyFly]

Unit_create(dim, scalar_multiple) ==
    [kind |-> "unit", value |-> scalar_multiple, dim |-> dim, fly |-> EmptyFly]

Quantity_is_dimensionless(self) == Dimension_is_dimensionless(self.dim)

\* float(b) ** float(e) for an integral e; 0.0 ** negative raises
FloatPow(b, e) ==
    IF e.n >= 0 THEN [n |-> IntPow(b.n, e.n), d |-> IntPow(b.d, e.n)]
    ELSE Rat(IntPow(b.d, -e.n), IntPow(b.n, -e.n))

Quantity__mul__(self, other) ==
    IF IsQuantity(other)
    THEN Ok(Quantity_with_dimensions(RatMul(self.value, other.value),
                                     Dimension__mul__(self.dim, other.dim)))
    ELSE IF is_scalar_type(other)
    THEN Ok(Quantity_with_dimensions(RatMul(self.value, other.value), self.dim))
    ELSE NotImplemented

Quantity__div__(self, other) ==
    IF IsQuantity(other)
    THEN IF other.value.n = 0 THEN Raise("ZeroDivisionError")
         ELSE Ok(Quantity_with_dimensions(RatMul(self.value, RatInv(other.value)),
                                          Dimension__div__(self.dim, other.dim)))
    ELSE IF is_scalar_type(other)
    THEN IF other.value.n = 0 THEN Raise("ZeroDivisionError")
         ELSE Ok(Quantity_with_dimensions(RatMul(self.value, RatInv(other.value)),
                                          self.dim))
    ELSE NotImplemented

Quantity__rdiv__(self, other) ==
    IF IsQuantity(other)
    THEN IF self.value.n = 0 THEN Raise("ZeroDivisionError")
         ELSE Ok(Quantity_with_dimensions(RatMul(other.value, RatInv(self.value)),
                                          Dimension__div__(other.dim, self.dim)))
    ELSE IF is_scalar_type(other)
    THEN IF self.value.n = 0 THEN Raise("ZeroDivisionError")
         ELSE Ok(Quantity_with_dimensions(RatMul(other.value, RatInv(self.value)),
                                          [i \in 1..NDims |-> -self.dim[i]]))
    ELSE NotImplemented

Quantity__eq__(self, other) ==
    IF IsQuantity(other)
    THEN IF Dimension__eq__(self.dim, other.dim)
         THEN Ok(Bool(self.value = other.value))
         ELSE Ok(Bool(FALSE))
    ELSE IF is_scalar_type(other)
    THEN IF other.value = Zero THEN Ok(Bool(self.value = other.value))
         ELSE IF Dimension_is_dimensionless(self.dim)
         THEN Ok(Bool(self.value = other.value))
         ELSE Raise("DimensionMismatchError")
    ELSE NotImplemented

\* the truth value of the expression "other == 0" in __add__ and __sub__
EqualsZero(other) ==
    IF IsQuantity(other)
    THEN Quantity__eq__(other, Num(Zero)).v.value = One
    ELSE other.value = Zero

Quantity__add__(self, other) ==
    IF IsQuantity(other) \/ is_scalar_type(other)
    THEN LET dim == units_get_dimensions(other)
         IN  IF Dimension__eq__(dim, self.dim) \/ EqualsZero(other)
             THEN Ok(Quantity_with_dimensions(RatAdd(self.value, other.value),
                                              self.dim))
             ELSE Raise("DimensionMismatchError")
    ELSE NotImplemented

Quantity__radd__(self, other) == Quantity__add__(self, other)

Quantity__sub__(self, other) ==
    IF IsQuantity(other) \/ is_scalar_type(other)
    THEN LET dim == units_get_dimensions(other)
         IN  IF Dimension__eq__(dim, self.dim) \/ EqualsZero(other)
             THEN Ok(Quantity_with_dimensions(RatSub(self.value, other.value),
                                              self.dim))
             ELSE Raise("DimensionMismatchError")
    ELSE NotImplemented

Quantity__rsub__(self, other) ==
    IF IsQuantity(other) \/ is_scalar_type(other)
    THEN LET dim == units_get_dimensions(other)
         IN  IF Dimension__eq__(dim, self.dim)
             THEN Ok(Quantity_with_dimensions(RatSub(other.value, self.value),
                                              self.dim))
             ELSE Raise("DimensionMismatchError")
    ELSE NotImplemented

Quantity__pow__(self, other) ==
    IF IsQuantity(other)
    THEN IF Quantity_is_dimensionless(other)
         THEN IF self.value.n = 0 /\ other.value.n < 0
              THEN Raise("ZeroDivisionError")
              ELSE Ok(Quantity_with_dimensions(
                          FloatPow(self.value, other.value),
                          Dimension__pow__(self.dim, other.value.n)))
         ELSE Raise("DimensionMismatchError")
    ELSE IF is_scalar_type(other)
    THEN IF self.value.n = 0 /\ other.value.n < 0
         THEN Raise("ZeroDivisionError")
         ELSE Ok(Quantity_with_dimensions(
                     FloatPow(self.value, other.value),
                     Dimension__pow__(self.dim, other.value.n)))
    ELSE NotImplemented

Quantity__rpow__(self, other) ==
    IF Quantity_is_dimensionless(self)
    THEN IF other.value.n = 0 /\ self.value.n < 0 THEN Raise("ZeroDivisionError")
         ELSE IF IsQuantity(other)
         THEN Ok(Quantity_with_dimensions(
                     FloatPow(other.value, self.value),
                     Dimension__pow__(other.dim, self.value.n)))
         ELSE IF is_scalar_type(other)
         THEN Ok(Quantity_with_dimensions(FloatPow(other.value, self.value),
                                          Dimensionless))
         ELSE NotImplemented
    ELSE Raise("DimensionMismatchError")

Quantity__neg__(self) == Quantity_with_dimensions(RatNeg(self.value), self.dim)

Quantity__lt__(self, other) ==
    IF IsQuantity(other)
    THEN IF Dimension__eq__(self.dim, other.dim)
         THEN Ok(Bool(RatLt(self.value, other.value)))
         ELSE Raise("DimensionMismatchError")
    ELSE IF is_scalar_type(other)
    THEN IF other.value = Zero THEN Ok(Bool(RatLt(self.value, other.value)))
         ELSE IF Quantity_is_dimensionless(self)
         THEN Ok(Bool(RatLt(self.value, other.value)))
         ELSE Raise("DimensionMismatchError")
    ELSE NotImplemented

Quantity__le__(self, other) ==
    IF IsQuantity(other)
    THEN IF Dimension__eq__(self.dim, other.dim)
         THEN Ok(Bool(RatLe(self.value, other.value)))
         ELSE Raise("DimensionMismatchError")
    ELSE IF is_scalar_type(other)
    THEN IF other.value = Zero THEN Ok(Bool(RatLe(self.value, other.value)))
         ELSE IF Quantity_is_dimensionless(self)
         THEN Ok(Bool(RatLe(self.value, other.value)))
         ELSE Raise("DimensionMismatchError")
    ELSE NotImplemented

Quantity__gt__(self, other) ==
    IF IsQuantity(other)
    THEN IF Dimension__eq__(self.dim, other.dim)
         THEN Ok(Bool(RatLt(other.value, self.value)))
         ELSE Raise("DimensionMismatchError")
    ELSE IF is_scalar_type(other)
    THEN IF other.value = Zero THEN Ok(Bool(RatLt(other.value, self.value)))
         ELSE IF Quantity_is_dimensionless(self)
         THEN Ok(Bool(RatLt(other.value, self.value)))
         ELSE Raise("DimensionMismatchError")
    ELSE NotImplemented

Quantity__ge__(self, other) ==
    IF IsQuantity(other)
    THEN IF Dimension__eq__(self.dim, other.dim)
         THEN Ok(Bool(RatLe(other.value, self.value)))
         ELSE Raise("DimensionMismatchError")
    ELSE IF is_scalar_type(other)
    THEN IF other.value = Zero THEN Ok(Bool(RatLe(other.value, self.value)))
         ELSE IF Quantity_is_dimensionless(self)
         THEN Ok(Bool(RatLe(other.value, self.value)))
         ELSE Raise("DimensionMismatchError")
    ELSE NotImplemented

Quantity__ne__(self, other) ==
    IF IsQuantity(other)
    THEN IF Dimension__eq__(self.dim, other.dim)
         THEN Ok(Bool(self.value # other.value))
         ELSE Raise("DimensionMismatchError")
    ELSE IF is_scalar_type(other)
    THEN IF other.value = Zero THEN Ok(Bool(self.value # other.value))
         ELSE IF Dimension_is_dimensionless(self.dim)
         THEN Ok(Bool(self.value # other.value))
         ELSE Raise("DimensionMismatchError")
    ELSE NotImplemented

(***************************************************************************)
(* units.py: Unit                                                          *)
(***************************************************************************)
Unit__pow__(self, other) ==
    IF is_scalar_type(other)
    THEN IF self.value.n = 0 /\ other.value.n < 0
         THEN Raise("ZeroDivisionError")
         ELSE Ok(Unit_create(Dimension__pow__(self.dim, other.value.n),
                             FloatPow(self.value, other.value)))
    ELSE Quantity__mul__(self, other)

\* the branches for two Units; any other operand goes to Quantity.__mul__
Unit__mul__(self, other) ==
    IF IsUnit(other)
    THEN Ok(Unit_create(Dimension__mul__(self.dim, other.dim),
                        RatMul(self.value, other.value)))
    ELSE Quantity__mul__(self, other)

Unit__div__(self, other) ==
    IF IsUnit(other)
    THEN IF other.value.n = 0 THEN Raise("ZeroDivisionError")
         ELSE Ok(Unit_create(Dimension__div__(self.dim, other.dim),
                             RatMul(self.value, RatInv(other.value))))
    ELSE Quantity__div__(self, other)

(***************************************************************************)
(* flyquant.py: Flydim.  A Flydim is its dictionary name -> exponent, a    *)
(* function on the set of its keys.                                        *)
(***************************************************************************)
FlyGet(d, k) == IF k \in DOMAIN d THEN d[k] ELSE 0

Flydim__mul__(self, other) ==
    LET keys == {k \in DOMAIN self \cup DOMAIN other :
                    k \notin DOMAIN other \/ FlyGet(self, k) + other[k] # 0}
    IN  [k \in keys |-> FlyGet(self, k) + FlyGet(other, k)]

Flydim_invert(self) == [k \in DOMAIN self |-> self[k] * (-1)]

\* the branch for a plain number; exponents that become 0 stay in the dictionary
Flydim__pow__(self, other) == [k \in DOMAIN self |-> self[k] * other]

Flydim_is_dimensionless(self) == Cardinality(DOMAIN self) = 0

\* Flydim(name) as an object among the values: fly is its dictionary
Flydim(name) ==
    [kind |-> "flydim", value |-> One, dim |-> Dimensionless,
     fly |-> [k \in {name} |-> 1]]

(***************************************************************************)
(* flyquant.py: Flyquant = (quant, fly).  The proper part quant is kept as *)
(* its value and Dimension.                                                *)
(***************************************************************************)
Flyquant(fly, quant) ==
    [kind |-> "flyquant", value |-> quant.value, dim |-> quant.dim, fly |-> fly]

Quant(self) == Quantity_with_dimensions(self.value, self.dim)

flt(obj) == obj.value

\* Flydim().get_dimensions() stands for the empty dictionary
get_dimensions(obj) ==
    IF IsFlyquant(obj) THEN <<obj.dim, obj.fly>>
    ELSE IF IsQuantity(obj) THEN <<obj.dim, EmptyFly>>
    ELSE <<Dimensionless, EmptyFly>>

is_dimensionless(obj) == get_dimensions(obj) = <<Dimensionless, EmptyFly>>

fly(obj) ==
    IF IsFlyquant(obj) THEN obj
    ELSE IF IsQuantity(obj) THEN Flyquant(EmptyFly, obj)
    ELSE Flyquant(EmptyFly, Quantity_with_dimensions(obj.value, Dimensionless))

Flyquant__mul__(self, other) ==
    IF IsFlyquant(other)
    THEN Ok(Flyquant(Flydim__mul__(self.fly, other.fly),
                     Quantity__mul__(Quant(self), Quant(other)).v))
    ELSE IF IsFlydim(other)
    THEN Ok(Flyquant(Flydim__mul__(self.fly, other.fly), Quant(self)))
    ELSE IF IsQuantity(other)
    THEN Ok(Flyquant(self.fly, Quantity__mul__(Quant(self), other).v))
    ELSE IF is_scalar_type(other)
    THEN Ok(Flyquant(self.fly, Quantity__mul__(Quant(self), other).v))
    ELSE NotImplemented

Flyquant__rmul__(self, other) == Flyquant__mul__(self, other)

\* Flydim.__mul__ for any operand (Flydim__mul__ is its branch for two
\* Flydims); __rmul__ is the same function
Flydim__rmul__(self, other) ==
    IF IsFlydim(other)
    THEN Ok([self EXCEPT !.fly = Flydim__mul__(self.fly, other.fly)])
    ELSE IF IsQuantity(other) THEN Ok(Flyquant(self.fly, other))
    ELSE IF IsFlyquant(other) THEN NotImplemented
    ELSE IF is_scalar_type(other)
    THEN Ok(Flyquant(self.fly, Quantity_with_dimensions(other.value, Dimensionless)))
    ELSE NotImplemented

\* Flydim.__pow__ for any operand (Flydim__pow__ is its branch for a plain
\* number); "s[k] = ..." indexes the Flydim itself, which has no __setitem__
Flydim_power(self, other) ==
    IF IsFlyquant(other) \/ IsQuantity(other)
    THEN IF (IF IsFlyquant(other)
             THEN Quantity_is_dimensionless(Quant(other))
                      /\ Flydim_is_dimensionless(other.fly)
             ELSE Quantity_is_dimensionless(other))
         THEN IF Flydim_is_dimensionless(self.fly) THEN Ok(self)
              ELSE Raise("TypeError")
         ELSE IF IsQuantity(other) THEN Raise("DimensionMismatchError")
         ELSE Raise("AttributeError")
    ELSE IF is_scalar_type(other)
    THEN Ok([self EXCEPT !.fly = Flydim__pow__(self.fly, other.value.n)])
    ELSE NotImplemented

\* Flyquant(self.fly.invert(), 1/self.quant)
Flyquant_invert(self) ==
    LET q == Quantity__rdiv__(Quant(self), Num(One))
    IN  IF q.status # "ok" THEN q
        ELSE Ok(Flyquant(Flydim_invert(self.fly), q.v))

\* the expression 1.0/other of __div__
Reciprocal(other) ==
    IF IsQuantity(other) THEN Quantity__rdiv__(other, Num(One))
    ELSE IF other.value.n = 0 THEN Raise("ZeroDivisionError")
    ELSE Ok(Num(RatInv(other.value)))

Flyquant__div__(self, other) ==
    IF IsFlyquant(other)
    THEN LET i == Flyquant_invert(other)
         IN  IF i.status # "ok" THEN i ELSE Flyquant__mul__(self, i.v)
    ELSE IF is_scalar_type(other) \/ IsQuantity(other)
    THEN LET r == Reciprocal(other)
         IN  IF r.status # "ok" THEN r ELSE Flyquant__mul__(self, r.v)
    ELSE NotImplemented

Flyquant__rdiv__(self, other) ==
    LET i == Flyquant_invert(self)
    IN  IF i.status # "ok" THEN i ELSE Flyquant__rmul__(i.v, other)

\* get_dimensions(Dimension(),Flydim().get_dimensions()): two arguments
\* passed to the one-parameter get_dimensions
get_dimensions_of_two == Raise("TypeError")

Flyquant__pow__(self, other) ==
    IF is_scalar_type(other) \/ IsFlyquant(other) \/ IsQuantity(other)
    THEN LET dimless == get_dimensions_of_two
         IN  IF dimless.status # "ok" THEN dimless
             ELSE IF get_dimensions(other) = dimless.v
             THEN LET q == Quantity__pow__(Quant(self), Num(flt(other)))
                  IN  IF q.status # "ok" THEN q
                      ELSE Ok(Flyquant(Flydim__pow__(self.fly, flt(other).n), q.v))
             ELSE Raise("DimensionMismatchError")
    ELSE NotImplemented

Flyquant__add__(self, other) ==
    IF IsFlyquant(other) \/ IsQuantity(other) \/ is_scalar_type(other)
    THEN IF get_dimensions(other) = get_dimensions(self)
         THEN LET m == Flyquant__mul__(self, Num(RatAdd(flt(self), flt(other))))
                  a == Flyquant__div__(m.v, Num(flt(self)))
              IN  IF a.status # "ok" THEN a
                  ELSE IF get_dimensions(a.v)[2] = EmptyFly
                  THEN IF get_dimensions(a.v)[1] = Dimensionless
                       THEN Ok(Num(a.v.value))
                       ELSE Ok(Quant(a.v))
                  ELSE a
         ELSE Raise("DimensionMismatchError")
    ELSE NotImplemented

Flyquant__radd__(self, other) == Flyquant__add__(self, other)

\* a = self.copy() shares self.quant, so the assignment to a.quant.value
\* also negates self: the caller's operand is left equal to the result
Flyquant__neg__(self) == [self EXCEPT !.value = RatNeg(self.value)]

\* other.__neg__()
Negated(other) ==
    IF IsFlyquant(other) THEN Flyquant__neg__(other)
    ELSE IF IsQuantity(other) THEN Quantity__neg__(other)
    ELSE [other EXCEPT !.value = RatNeg(@)]

Flyquant__sub__(self, other) == Flyquant__add__(self, Negated(other))

\* other + self.__neg__(): other is a number or a Quantity, whose __add__
\* does not take a Flyquant, so the sum is (-self).__radd__(other)
Flyquant__rsub__(self, other) == Flyquant__radd__(Flyquant__neg__(self), other)

(***************************************************************************)
(* Python's dispatch of the binary operators over the modelled types       *)
(***************************************************************************)
Implemented(r) == IF r.status = "NotImplemented" THEN Raise("TypeError") ELSE r

MaxPower == 31

\* int-or-float arithmetic: the result is an int when both operands are ints
Arith(a, b, v) ==
    [Num(v) EXCEPT !.kind = IF a.kind = "int" /\ b.kind = "int" THEN "int" ELSE "num"]

\* m ** k stays below 2^31, the range of the integers of the model
RECURSIVE Fits(_, _)
Fits(m, k) ==
    \/ k = 0
    \/ m <= 1
    \/ /\ k <= MaxPower
       /\ Fits(m, k - 1)
       /\ IntPow(m, k - 1) <= 2147483647 \div m

\* b ** e can be computed exactly: e is integral and the power fits
Representable(b, e) ==
    /\ e.d = 1
    /\ Fits(IF Abs(b.n) > b.d THEN Abs(b.n) ELSE b.d, Abs(e.n))

\* a ** b for two plain numbers: an int for two ints and b >= 0, else a float
NumberPow(a, b) ==
    IF a.value.n = 0 /\ b.value.n < 0 THEN Raise("ZeroDivisionError")
    ELSE IF a.kind = "int" /\ b.kind = "int" /\ b.value.n >= 0
    THEN Ok(Integer(IntPow(a.value.n, b.value.n)))
    ELSE Ok(Num(FloatPow(a.value, b.value)))

PyAdd(a, b) ==
    IF IsFlydim(a) \/ IsFlydim(b) THEN Raise("TypeError")
    ELSE IF IsFlyquant(a) THEN Implemented(Flyquant__add__(a, b))
    ELSE IF IsFlyquant(b) THEN Implemented(Flyquant__radd__(b, a))
    ELSE IF IsQuantity(a) THEN Implemented(Quantity__add__(a, b))
    ELSE IF IsQuantity(b) THEN Implemented(Quantity__radd__(b, a))
    ELSE Ok(Arith(a, b, RatAdd(a.value, b.value)))

PySub(a, b) ==
    IF IsFlydim(a) \/ IsFlydim(b) THEN Raise("TypeError")
    ELSE IF IsFlyquant(a) THEN Implemented(Flyquant__sub__(a, b))
    ELSE IF IsFlyquant(b) THEN Implemented(Flyquant__rsub__(b, a))
    ELSE IF IsQuantity(a) THEN Implemented(Quantity__sub__(a, b))
    ELSE IF IsQuantity(b) THEN Implemented(Quantity__rsub__(b, a))
    ELSE Ok(Arith(a, b, RatSub(a.value, b.value)))

PyMul(a, b) ==
    IF IsFlydim(a) /\ ~IsFlyquant(b) THEN Implemented(Flydim__rmul__(a, b))
    ELSE IF IsFlydim(b) /\ ~IsFlyquant(a) THEN Implemented(Flydim__rmul__(b, a))
    ELSE IF IsFlyquant(a) THEN Implemented(Flyquant__mul__(a, b))
    ELSE IF IsFlyquant(b) THEN Implemented(Flyquant__rmul__(b, a))
    ELSE IF IsUnit(a) THEN Implemented(Unit__mul__(a, b))
    ELSE IF IsUnit(b) THEN Implemented(Unit__mul__(b, a))
    ELSE IF IsQuantity(a) THEN Implemented(Quantity__mul__(a, b))
    ELSE IF IsQuantity(b) THEN Implemented(Quantity__mul__(b, a))
    ELSE Ok(Arith(a, b, RatMul(a.value, b.value)))

\* a / b; two ints divide with floor (there is no "from __future__ import
\* division").  A Flydim divisor is inverted and multiplied, a Flydim
\* dividend is multiplied by the inverse of the divisor.
PyDiv(a, b) ==
    IF IsFlydim(b)
    THEN PyMul(a, [b EXCEPT !.fly = Flydim_invert(b.fly)])
    ELSE IF IsFlydim(a)
    THEN LET i == IF IsFlyquant(b) THEN Flyquant_invert(b) ELSE Reciprocal(b)
         IN  IF i.status # "ok" THEN i ELSE PyMul(a, i.v)
    ELSE IF IsFlyquant(a) THEN Implemented(Flyquant__div__(a, b))
    ELSE IF IsFlyquant(b) THEN Implemented(Flyquant__rdiv__(b, a))
    ELSE IF IsUnit(a) THEN Implemented(Unit__div__(a, b))
    ELSE IF IsQuantity(a) THEN Implemented(Quantity__div__(a, b))
    ELSE IF IsQuantity(b) THEN Implemented(Quantity__rdiv__(b, a))
    ELSE IF b.value.n = 0 THEN Raise("ZeroDivisionError")
    ELSE IF a.kind = "int" /\ b.kind = "int"
    THEN Ok(Integer(a.value.n \div b.value.n))
    ELSE Ok(Num(RatMul(a.value, RatInv(b.value))))

\* base ** exponent.  An exponent that is not integral, or a power beyond
\* the integers of the model, ends the evaluation with "OutOfModel".
PyPow(a, b) ==
    IF (is_scalar_type(b) \/ (IsQuantity(b) /\ Quantity_is_dimensionless(b)))
           /\ ~Representable(a.value, b.value)
    THEN Raise("OutOfModel")
    ELSE IF IsFlyquant(a) THEN Implemented(Flyquant__pow__(a, b))
    ELSE IF IsFlydim(a) THEN Implemented(Flydim_power(a, b))
    ELSE IF IsUnit(a) THEN Implemented(Unit__pow__(a, b))
    ELSE IF IsQuantity(a) THEN Implemented(Quantity__pow__(a, b))
    ELSE IF is_scalar_type(b) THEN NumberPow(a, b)
    ELSE IF IsQuantity(b) THEN Implemented(Quantity__rpow__(b, a))
    ELSE Raise("TypeError")

\* the six comparisons with a Quantity on the left
PyCompare(name, a, b) ==
    CASE name = "lt" -> Implemented(Quantity__lt__(a, b))
      [] name = "le" -> Implemented(Quantity__le__(a, b))
      [] name = "gt" -> Implemented(Quantity__gt__(a, b))
      [] name = "ge" -> Implemented(Quantity__ge__(a, b))
      [] name = "eq" -> Implemented(Quantity__eq__(a, b))
      [] name = "ne" -> Implemented(Quantity__ne__(a, b))

(***************************************************************************)
(* quantity_parser.py: ParseHistory.  The log is a sequence, oldest first; *)
(* Python's index pos is position pos + 1.                                 *)
(***************************************************************************)
HistoryCapacity == 200

\* ParseHistory_add evicting as soon as the log reaches the capacity
ParseHistory_add_early(log, string) ==
    LET appended == Append(log, string)
    IN  IF Len(appended) >= HistoryCapacity THEN Tail(appended) ELSE appended

ParseHistory_add(log, string) ==
    LET appended == Append(log, string)
    IN  IF Len(appended) > HistoryCapacity THEN Tail(appended) ELSE appended

ParseHistory_length(log) == Len(log)

\* del self.history[pos]: a negative pos counts from the end
ParseHistory_delete(log, pos) ==
    LET i == IF pos < 0 THEN Len(log) + pos + 1 ELSE pos + 1
    IN  [k \in 1..(Len(log) - 1) |-> IF k < i THEN log[k] ELSE log[k + 1]]

\* read counting the entries from 1
ParseHistory_read_from_one(log, pos) ==
    IF ~(1 <= pos /\ pos <= ParseHistory_length(log))
    THEN [status |-> "ParseError", pos |-> pos, string |-> 0]
    ELSE [status |-> "ok", pos |-> pos, string |-> log[pos]]

ParseHistory_read(log, pos) ==
    IF ~(0 <= pos /\ pos < ParseHistory_length(log))
    THEN [status |-> "ParseError", pos |-> pos, string |-> 0]
    ELSE [status |-> "ok", pos |-> pos, string |-> log[pos + 1]]

(***************************************************************************)
(* quantity_parser.py: QuantityParser.parse_query, given the values that   *)
(* parse_expression returned for the operands.  The result is the first    *)
(* element of the returned list, or the exception raised.                  *)
(***************************************************************************)
\* obj.is_dimensionless(): a method of Quantity and Flyquant, not of numbers
Method_is_dimensionless(obj) ==
    IF IsFlyquant(obj)
    THEN Ok(Bool(Quantity_is_dimensionless(Quant(obj))
                 /\ Flydim_is_dimensionless(obj.fly)))
    ELSE IF IsQuantity(obj) THEN Ok(Bool(Quantity_is_dimensionless(obj)))
    ELSE Raise("AttributeError")

\* the returned list: its first element v, and the value that the formatted
\* string (second element) renders after the "="
Parsed(v, shown) == [status |-> "ok", v |-> v, shown |-> shown]

\* a query without an operator
parse_query_plain(initial_expression) ==
    Parsed(initial_expression, initial_expression)

\* parse_query_in returning the converted value as the first element
parse_query_in_ratio(initial_expression, target_quantity, fr, h) ==
    LET ratio == PyDiv(initial_expression, target_quantity)
        dimless == Method_is_dimensionless(ratio.v)
    IN  IF ~fr /\ ratio.status # "ok" THEN ratio
        ELSE IF ~fr /\ dimless.status # "ok" THEN dimless
        ELSE IF ~fr /\ dimless.v.value = Zero THEN Raise("DimensionMismatchError")
        ELSE IF ratio.status # "ok" THEN ratio
        ELSE IF h /\ dimless.status # "ok" THEN dimless
        ELSE Parsed(ratio.v, ratio.v)

\* the branch for the conversion operator "in"
parse_query_in(initial_expression, target_quantity, fr, h) ==
    LET ratio == PyDiv(initial_expression, target_quantity)
        dimless == Method_is_dimensionless(ratio.v)
    IN  IF ~fr /\ ratio.status # "ok" THEN ratio
        ELSE IF ~fr /\ dimless.status # "ok" THEN dimless
        ELSE IF ~fr /\ dimless.v.value = Zero THEN Raise("DimensionMismatchError")
        ELSE IF ratio.status # "ok" THEN ratio
        ELSE IF h /\ dimless.status # "ok" THEN dimless
        ELSE Parsed(initial_expression, ratio.v)

(***************************************************************************)
(* units.py and derived_units.py: the units of the model                   *)
(***************************************************************************)
Length == [i \in 1..NDims |-> IF i = 1 THEN 1 ELSE 0]
Time == [i \in 1..NDims |-> IF i = 3 THEN 1 ELSE 0]

metre == Unit_create(Length, One)
second == Unit_create(Time, One)
\* derived_units.py: mile = 1609.344 meter
mile == Unit_create(Length, Rat(1609344, 1000))

MaxDepth == 3

(***************************************************************************)
(* Strings are sequences of one-character strings; Python's index i is     *)
(* position i + 1 and a slice s[i:j] is SubSeq(s, i + 1, j).               *)
(***************************************************************************)
Whitespace == {" ", "\t", "\r", "\n"}

Digits == <<"0", "1", "2", "3", "4", "5", "6", "7", "8", "9">>

Letters ==
    {"a", "b", "c", "d", "e", "f", "g", "h", "i", "j", "k", "l", "m", "n", "o",
     "p", "q", "r", "s", "t", "u", "v", "w", "x", "y", "z", "A", "B", "C", "D",
     "E", "F", "G", "H", "I", "J", "K", "L", "M", "N", "O", "P", "Q", "R", "S",
     "T", "U", "V", "W", "X", "Y", "Z"}

isalpha(c) == c \in Letters
DigitChars == {Digits[i] : i \in 1..10}

isdigit(c) == c \in DigitChars

\* str.strip()
RECURSIVE strip(_)
strip(s) ==
    IF Len(s) = 0 THEN s
    ELSE IF Head(s) \in Whitespace THEN strip(Tail(s))
    ELSE IF s[Len(s)] \in Whitespace THEN strip(SubSeq(s, 1, Len(s) - 1))
    ELSE s

\* s[i:].startswith(t)
StartsAt(s, i, t) == i + Len(t) <= Len(s) /\ SubSeq(s, i + 1, i + Len(t)) = t

\* s[i:]
From(s, i) == IF i >= Len(s) THEN << >> ELSE SubSeq(s, i + 1, Len(s))

\* str.replace(old, new) for a non-empty old
RECURSIVE replace(_, _, _)
replace(s, old, new) ==
    IF Len(s) = 0 THEN s
    ELSE IF StartsAt(s, 0, old) THEN new \o replace(From(s, Len(old)), old, new)
    ELSE <<Head(s)>> \o replace(Tail(s), old, new)

\* int(digits) for a string of decimal digits
RECURSIVE int(_)
int(digits) ==
    IF Len(digits) = 0 THEN 0
    ELSE 10 * int(SubSeq(digits, 1, Len(digits) - 1))
           + (CHOOSE i \in 0..9 : Digits[i + 1] = digits[Len(digits)])

\* the index reached by "while pos < len(string) and string[pos] in chars"
RECURSIVE Scan(_, _, _)
Scan(s, i, chars) == IF i < Len(s) /\ s[i + 1] \in chars THEN Scan(s, i + 1, chars) ELSE i

(***************************************************************************)
(* quantity_parser.py: the tables of QuantityParser.  The model keeps the  *)
(* SI prefixes from milli to kilo, the word numbers up to thousand and the *)
(* units below; a prefix is stored with its power of ten.  The prefix      *)
(* tables are Python dictionaries, iterated in an order the source does    *)
(* not fix: the parser's field order tells which of DictOrders the build   *)
(* uses.                                                                   *)
(***************************************************************************)
TOK_PLUS == 0
TOK_MINUS == 1
TOK_STAR == 2
TOK_SLASH == 3
TOK_CARET == 4
TOK_IN == 5
TOK_EQU == 6

SI_PREFIXES ==
    << <<<<"m", "i", "l", "l", "i">>, -3>>, <<<<"c", "e", "n", "t", "i">>, -2>>, <<<<"d", "e", "c", "i">>, -1>>, <<<<"h", "e", "c", "t", "o">>, 2>>, <<<<"k", "i", "l", "o">>, 3>> >>

SI_PREFIXES_SHORT ==
    << <<<<"m">>, -3>>, <<<<"c">>, -2>>, <<<<"d">>, -1>>, <<<<"h">>, 2>>, <<<<"k">>, 3>> >>

DictOrders == {"forward", "backward"}

\* for key in table
Keys(table, order) ==
    IF order = "forward" THEN table
    ELSE [i \in 1..Len(table) |-> table[Len(table) + 1 - i]]

\* 10**p: an int for p >= 0, a float for p < 0
PowerOfTen(p) ==
    IF p >= 0 THEN Integer(IntPow(10, p)) ELSE Num(Rat(1, IntPow(10, -p)))

WORD_NUMBERS ==
    (<<"o", "n", "e">> :> Integer(1)) @@ (<<"t", "w", "o">> :> Integer(2)) @@ (<<"t", "h", "r", "e", "e">> :> Integer(3))
        @@ (<<"t", "e", "n">> :> Integer(10)) @@ (<<"h", "u", "n", "d", "r", "e", "d">> :> Integer(100)) @@ (<<"t", "h", "o", "u", "s", "a", "n", "d">> :> Integer(1000))

Volume == [i \in 1..NDims |-> IF i = 1 THEN 3 ELSE 0]

\* derived_units.py: minute = 60.0 second, kilometer = 1000 meter,
\* impGal = 4.54609 litre, litre = 0.001 meter**3
ALL_UNITS ==
    (<<"m", "e", "t", "r", "e">> :> metre) @@ (<<"m", "e", "t", "e", "r">> :> metre) @@ (<<"s", "e", "c", "o", "n", "d">> :> second)
        @@ (<<"m", "i", "n", "u", "t", "e">> :> Unit_create(Time, Rat(60, 1)))
        @@ (<<"m", "i", "l", "e">> :> mile)
        @@ (<<"k", "i", "l", "o", "m", "e", "t", "e", "r">> :> Unit_create(Length, Rat(1000, 1)))
        @@ (<<"i", "m", "p", "G", "a", "l">> :> Unit_create(Volume, Rat(454609, 100000000)))

\* str(unit) -> name; "m" is claimed by metre and then by meter
UNIT_SYMBOLS ==
    (<<"m">> :> <<"m", "e", "t", "e", "r">>) @@ (<<"s">> :> <<"s", "e", "c", "o", "n", "d">>) @@ (<<"m", "i", "n">> :> <<"m", "i", "n", "u", "t", "e">>)
        @@ (<<"m", "i">> :> <<"m", "i", "l", "e">>) @@ (<<"k", "m">> :> <<"k", "i", "l", "o", "m", "e", "t", "e", "r">>) @@ (<<"I", "m", "p", "G", "a", "l">> :> <<"i", "m", "p", "G", "a", "l">>)

\* the keys of the dictionary imperial of parse_word that the model keeps
imperial_keys == {<<"i", "m", "p", "G", "a", "l">>}

\* imperial[word]
imperial_names == (<<"i", "m", "p", "G", "a", "l">> :> <<"(", "I", "m", "p", "e", "r", "i", "a", "l", " ", "g", "a", "l", "l", "o", "n", ")">>)

(***************************************************************************)
(* quantity_parser.py: ParseHistory as an object.  id tells two objects    *)
(* apart: copy() makes a new one, so what a callee does to the copy does   *)
(* not reach the original.                                                 *)
(***************************************************************************)
ParseHistory == [id |-> 0, history |-> << >>, defined_variables |-> EmptyFly]

\* handing out the same object instead of a copy
ParseHistory_alias(self) == self

ParseHistory_copy(self) == [self EXCEPT !.id = @ + 1]

(***************************************************************************)
(* quantity_parser.py: QuantityParser.  A parser object is a record; a     *)
(* method returns [status, v, shown, msg, at, self]: the value v, or the   *)
(* exception status with its message msg and the character position at    *)
(* that the message carries (-1 when it carries none), and the parser      *)
(* object self as the method left it.  shown is the value rendered after   *)
(* "=" in the formatted string.  depth counts the nested parsers of "#n".  *)
(* output_string is the history string under construction.                 *)
(***************************************************************************)
QuantityParser(h, otf, fr) ==
    [string |-> << >>, pos |-> 0, fly_variables |-> EmptyFly,
     history |-> ParseHistory, on_the_fly |-> otf, html |-> h,
     false_requests |-> fr, depth |-> 0, order |-> "forward",
     output_string |-> << >>]

Returns(v, self) ==
    [status |-> "ok", v |-> v, shown |-> v, msg |-> "", at |-> -1, self |-> self]

Throws(e, msg, at, self) ==
    [status |-> e, v |-> NoValue, shown |-> NoValue, msg |-> msg, at |-> at,
     self |-> self]

\* the outcome of an arithmetic operation inside a method
Lift(r, self) ==
    IF r.status = "ok" THEN Returns(r.v, self) ELSE Throws(r.status, "", -1, self)

\* self.string[self.pos]
CharAt(self) == self.string[self.pos + 1]

AtEnd(self) == self.pos >= Len(self.string)

Advance(self, k) == [self EXCEPT !.pos = @ + k]

skip_whitespace(self) == [self EXCEPT !.pos = Scan(self.string, @, Whitespace)]

\* self.output_string += s
add_output(self, s) == [self EXCEPT !.output_string = @ \o s]

\* the significant digits of str() of a float
FloatDigits == 12

\* the decimal digits of the natural number n
RECURSIVE str_digits(_)
str_digits(n) ==
    IF n < 10 THEN <<Digits[n + 1]>>
    ELSE str_digits(n \div 10) \o <<Digits[(n % 10) + 1]>>

\* the first k digits after the point of n/d, for 0 <= n < d
RECURSIVE str_fraction(_, _, _)
str_fraction(n, d, k) ==
    IF n = 0 \/ k = 0 THEN << >>
    ELSE <<Digits[((10 * n) \div d) + 1]>> \o str_fraction((10 * n) % d, d, k - 1)

\* str() of an int, and of a float ('%.12g', with ".0" for a whole number)
\* in the range where Python writes no exponent
str(obj) ==
    LET n == obj.value.n
        d == obj.value.d
        a == IF n < 0 THEN -n ELSE n
        sign == IF n < 0 THEN <<"-">> ELSE << >>
        fraction == str_fraction(a % d, d, FloatDigits)
    IN  IF obj.kind = "int" THEN sign \o str_digits(a)
        ELSE sign \o str_digits(a \div d) \o <<".">>
                 \o (IF fraction = << >> THEN <<"0">> ELSE fraction)

\* parse_operator(increment, add_to_string): the method appends the operator
\* to output_string whenever it increments, and never reads add_to_string
parse_operator(self, increment) ==
    IF AtEnd(self) THEN Throws("ParseError", "Operator expected", self.pos, self)
    ELSE IF CharAt(self) = "*" /\ self.pos < Len(self.string) - 1
              /\ self.string[self.pos + 2] = "*"
    THEN Returns(TOK_CARET, IF increment THEN add_output(Advance(self, 2), <<"^">>)
                            ELSE self)
    ELSE IF CharAt(self) \in {"+", "-", "*", "/", "^"}
    THEN Returns(CASE CharAt(self) = "+" -> TOK_PLUS
                   [] CharAt(self) = "-" -> TOK_MINUS
                   [] CharAt(self) = "*" -> TOK_STAR
                   [] CharAt(self) = "/" -> TOK_SLASH
                   [] CharAt(self) = "^" -> TOK_CARET,
                 IF increment THEN Advance(add_output(self, <<CharAt(self)>>), 1)
                 ELSE self)
    ELSE Throws("ParseError", "Operator expected", self.pos, self)

\* the check_ methods skip the whitespace and answer v; the methods that
\* follow are written as chains of operators, one for each value that the
\* statements after it read: the operator named f_x continues the method f
\* once x is known
IsToken(o, tokens) == o.status = "ok" /\ o.v \in tokens

check_operator_at(s, tokens) ==
    [v |-> IsToken(parse_operator(s, FALSE), tokens), self |-> s]

check_operator(self, tokens) == check_operator_at(skip_whitespace(self), tokens)

check_plus(self) == check_operator(self, {TOK_PLUS, TOK_MINUS})
check_times(self) == check_operator(self, {TOK_STAR, TOK_SLASH})
check_power(self) == check_operator(self, {TOK_CARET})

check_alpha_at(s) == [v |-> ~AtEnd(s) /\ isalpha(CharAt(s)), self |-> s]

check_alpha(self) == check_alpha_at(skip_whitespace(self))

check_number_at(s) ==
    [v |-> ~AtEnd(s) /\ (isdigit(CharAt(s)) \/ CharAt(s) = "."), self |-> s]

check_number(self) == check_number_at(skip_whitespace(self))

parse_query_op(self, increment) ==
    IF AtEnd(self)
    THEN Throws("ParseError", "Query operator expected", self.pos, self)
    ELSE IF CharAt(self) = "="
    THEN Returns(TOK_EQU, IF increment THEN Advance(self, 1) ELSE self)
    ELSE IF CharAt(self) = "%"
    THEN Returns(TOK_IN, IF increment THEN Advance(self, 1) ELSE self)
    ELSE Throws("ParseError", "Query operator expected", self.pos, self)

check_query_op_at(s) == [v |-> parse_query_op(s, FALSE).status = "ok", self |-> s]

check_query_op(self) == check_query_op_at(skip_whitespace(self))

\* invoke(method, args) is the call of the method of the parser on args, or
\* the binary operator of units.py and flyquant.py applied to its two
\* operands; the methods call each other through it
RECURSIVE invoke(_, _)

\* the integer read up to the index end
integer_end(self, end) ==
    Returns(int(SubSeq(self.string, self.pos + 1, end)), [self EXCEPT !.pos = end])

\* v is the integer itself
parse_integer(self) ==
    IF AtEnd(self) \/ ~isdigit(CharAt(self))
    THEN Throws("ParseError", "Integer expected", self.pos, self)
    ELSE integer_end(self, Scan(self.string, self.pos, DigitChars))

\* the decimal part float(temp)/float(counter) for the smallest power of
\* ten counter >= 10 that is not below temp
RECURSIVE DecimalPart(_, _)
DecimalPart(temp, counter) ==
    IF counter < temp THEN DecimalPart(temp, counter * 10) ELSE Rat(temp, counter)

\* return (integer_part)*10**power_part, scale being 10**power_part
number_scale(integer_part, scale, self) ==
    IF scale.status # "ok" THEN Lift(scale, self)
    ELSE Lift(invoke("PyMul", <<integer_part, scale.v>>), self)

\* the statements under "if add_to_string": str(integer_part), and
\* "*10^" + str(power_part) when power_part is not 0
number_output(add_to_string, integer_part, power_part, self) ==
    IF ~add_to_string THEN self
    ELSE add_output(self,
             str(integer_part) \o (IF power_part # 0
                                   THEN <<"*", "1", "0", "^">> \o str(Integer(power_part))
                                   ELSE << >>))

\* power_part = self.parse_integer() or -self.parse_integer()
number_power_part(add_to_string, integer_part, minus, digits) ==
    IF digits.status # "ok" THEN digits
    ELSE number_scale(integer_part,
                      invoke("PyPow", <<Integer(10),
                            Integer(IF minus THEN -digits.v ELSE digits.v)>>),
                      number_output(add_to_string, integer_part,
                                    IF minus THEN -digits.v ELSE digits.v,
                                    digits.self))

\* op = self.parse_operator()
number_op(add_to_string, integer_part, o) ==
    number_power_part(add_to_string, integer_part, o.v = TOK_MINUS,
                      parse_integer(o.self))

\* if self.check_plus(): without an operator op stays False, which equals
\* TOK_PLUS
number_check_plus(add_to_string, integer_part, cp) ==
    IF cp.v THEN number_op(add_to_string, integer_part, parse_operator(cp.self, TRUE))
    ELSE number_power_part(add_to_string, integer_part, FALSE, parse_integer(cp.self))

\* after the integer and the decimal part: the end of the number, or the
\* exponent after "e" or "E"
number_exponent(add_to_string, integer_part, self) ==
    IF AtEnd(self) \/ CharAt(self) \notin {"e", "E"}
    THEN Returns(integer_part, number_output(add_to_string, integer_part, 0, self))
    ELSE number_check_plus(add_to_string, integer_part, check_plus(Advance(self, 1)))

\* temp = self.parse_integer() after the decimal point
number_temp(add_to_string, ip, temp) ==
    IF temp.status # "ok" THEN temp
    ELSE number_exponent(add_to_string,
                         Num(RatAdd(Rat(ip.v, 1), DecimalPart(temp.v, 10))),
                         temp.self)

\* self.string[self.pos] is read unguarded after the decimal point
number_point(add_to_string, ip, self) ==
    IF AtEnd(self) THEN Throws("IndexError", "", -1, self)
    ELSE IF ~isdigit(CharAt(self))
    THEN Throws("ParseError", "expected digit after decimal point", self.pos, self)
    ELSE number_temp(add_to_string, ip, parse_integer(self))

\* after integer_part = self.parse_integer()
number_integer_part(add_to_string, ip) ==
    IF ip.status # "ok" THEN ip
    ELSE IF AtEnd(ip.self)
    THEN Returns(Integer(ip.v),
                 number_output(add_to_string, Integer(ip.v), 0, ip.self))
    ELSE IF CharAt(ip.self) = "."
    THEN number_point(add_to_string, ip, Advance(ip.self, 1))
    ELSE number_exponent(add_to_string, Integer(ip.v), ip.self)

\* parse_number(add_to_string); self.string[self.pos] is read unguarded on
\* entry
parse_number(self, add_to_string) ==
    IF AtEnd(self) THEN Throws("IndexError", "", -1, self)
    ELSE number_integer_part(add_to_string,
                             IF CharAt(self) # "." THEN parse_integer(self)
                             ELSE Returns(0, self))

\* self.dict of parse_word: later updates override earlier ones
MergedDict(fly_variables, named_variables) ==
    named_variables @@ fly_variables @@ WORD_NUMBERS @@ ALL_UNITS

\* the pair (value, formatted_string) that parse_word returns
Word(v, string, self) ==
    [status |-> "ok", v |-> v, string |-> string, msg |-> "", at |-> -1,
     self |-> self]

\* the pair of a prefixed word: the product scaled, or its exception
Prefixed(product, string) ==
    [status |-> product.status, v |-> product.v, string |-> string]

\* "<font color = 'red'>" + word + "</font>" for a word of fly_variables
\* under html, else the word
red(self, word) ==
    IF self.html /\ word \in DOMAIN self.fly_variables
    THEN <<"<", "f", "o", "n", "t", " ", "c", "o", "l", "o", "r", " ", "=", " ", "'", "r", "e", "d", "'", ">">> \o word \o <<"<", "/", "f", "o", "n", "t", ">">>
    ELSE word

\* the tests of one key of a prefix table, rest being word[len(key):] and
\* singular word[len(key):-1]; status "none" when none of them holds.  Only
\* the loop over SI_PREFIXES_SHORT reaches the test of a singular in
\* imperial.
prefix_key(self, short, key, scale, word, dict, rest, singular) ==
    IF StartsAt(word, 0, key) /\ rest \in DOMAIN UNIT_SYMBOLS
    THEN Prefixed(invoke("PyMul", <<scale, dict[UNIT_SYMBOLS[rest]]>>),
                str(scale) \o <<"*">> \o UNIT_SYMBOLS[rest])
    ELSE IF rest \in imperial_keys
    THEN Prefixed(invoke("PyMul", <<scale, dict[rest]>>),
                str(scale) \o <<"*">> \o imperial_names[rest])
    ELSE IF StartsAt(word, 0, key) /\ rest \in DOMAIN dict
    THEN Prefixed(invoke("PyMul", <<scale, dict[rest]>>),
                str(scale) \o <<"*">> \o red(self, rest))
    ELSE IF word[Len(word)] = "s" /\ StartsAt(word, 0, key)
              /\ singular \in DOMAIN dict
    THEN Prefixed(invoke("PyMul", <<scale, dict[singular]>>),
                str(scale) \o <<"*">> \o
                    (IF self.html /\ singular \in DOMAIN self.fly_variables
                     THEN red(self, singular)
                     ELSE IF short /\ singular \in imperial_keys
                     THEN imperial_names[singular]
                     ELSE singular))
    ELSE Prefixed(Raise("none"), << >>)

RECURSIVE prefix_loop(_, _, _, _, _, _)

\* the next key when this one gave nothing
prefix_next(self, short, hit, keys, word, dict, i) ==
    IF hit.status # "none" THEN hit
    ELSE prefix_loop(self, short, keys, word, dict, i + 1)

\* one of the two loops over a prefix table: the first key that matches,
\* with v the scaled value and string its formatted string, or status "none"
prefix_loop(self, short, keys, word, dict, i) ==
    IF i > Len(keys) THEN Prefixed(Raise("none"), << >>)
    ELSE prefix_next(self, short,
                     prefix_key(self, short, keys[i][1], PowerOfTen(keys[i][2]),
                                word, dict, From(word, Len(keys[i][1])),
                                IF Len(word) - 1 > Len(keys[i][1])
                                THEN SubSeq(word, Len(keys[i][1]) + 1, Len(word) - 1)
                                ELSE << >>),
                     keys, word, dict, i)

\* the return of a prefix loop as the return of parse_word
word_prefixed(hit, self) ==
    IF hit.status = "ok" THEN Word(hit.v, hit.string, self)
    ELSE Throws(hit.status, "", -1, self)

\* no table and no prefix gave the word
word_unknown(self, word) ==
    IF self.on_the_fly
    THEN Word(Flydim(word),
              IF self.html THEN <<"<", "f", "o", "n", "t", " ", "c", "o", "l", "o", "r", " ", "=", " ", "'", "r", "e", "d", "'", ">">> \o word \o <<"<", "/", "f", "o", "n", "t", ">">>
              ELSE word,
              [self EXCEPT !.fly_variables = (word :> Flydim(word)) @@ @])
    ELSE Throws("ParseError", "not found in dictionary", self.pos - 1, self)

\* for key in self.SI_PREFIXES_SHORT
word_short(self, word, short) ==
    IF short.status # "none" THEN word_prefixed(short, self)
    ELSE word_unknown(self, word)

\* for key in self.SI_PREFIXES
word_long(self, word, dict, long) ==
    IF long.status # "none" THEN word_prefixed(long, self)
    ELSE word_short(self, word,
                    prefix_loop(self, TRUE, Keys(SI_PREFIXES_SHORT, self.order),
                                word, dict, 1))

\* the formatted string of a word found in self.dict
word_string(self, word) ==
    IF word \in imperial_keys THEN imperial_names[word]
    ELSE IF self.html /\ word \in DOMAIN self.history.defined_variables
    THEN <<"<", "f", "o", "n", "t", " ", "c", "o", "l", "o", "r", "=", "'", "l", "i", "m", "e", "'", ">">> \o word \o <<"<", "/", "f", "o", "n", "t", ">">>
    ELSE IF self.html /\ word \in DOMAIN self.fly_variables
    THEN <<"<", "f", "o", "n", "t", " ", "c", "o", "l", "o", "r", "=", "'", "r", "e", "d", "'", ">">> \o word \o <<"<", "/", "f", "o", "n", "t", ">">>
    ELSE word

\* the formatted string of a plural whose singular is in self.dict
singular_string(self, singular) ==
    IF singular \in imperial_keys THEN imperial_names[singular]
    ELSE IF self.html /\ singular \in DOMAIN self.fly_variables
    THEN <<"<", "f", "o", "n", "t", " ", "c", "o", "l", "o", "r", "=", "'", "r", "e", "d", "'", ">">> \o singular \o <<"<", "/", "f", "o", "n", "t", ">">>
    ELSE singular

\* the tests of parse_word on the word read, self being the parser after it
word_dict(self, word, dict) ==
    IF word \in DOMAIN dict THEN Word(dict[word], word_string(self, word), self)
    ELSE IF word \in DOMAIN UNIT_SYMBOLS
    THEN Word(ALL_UNITS[UNIT_SYMBOLS[word]], UNIT_SYMBOLS[word], self)
    ELSE IF word[Len(word)] = "s"
              /\ SubSeq(word, 1, Len(word) - 1) \in DOMAIN dict
    THEN Word(dict[SubSeq(word, 1, Len(word) - 1)],
              singular_string(self, SubSeq(word, 1, Len(word) - 1)), self)
    ELSE word_long(self, word, dict,
                   prefix_loop(self, FALSE, Keys(SI_PREFIXES, self.order),
                               word, dict, 1))

\* the word ends at the index end
word_end(self, end) ==
    word_dict([self EXCEPT !.pos = end], SubSeq(self.string, self.pos + 1, end),
              MergedDict(self.fly_variables, self.history.defined_variables))

parse_word(self) == word_end(self, Scan(self.string, self.pos, Letters \cup {"_"}))

RECURSIVE sentence_loop(_, _, _, _)

\* sentence *= word
sentence_product(product, self, count, temp_string) ==
    IF product.status # "ok" THEN Lift(product, self)
    ELSE sentence_loop(self, product.v, count, temp_string)

\* word is the word, or the word raised to its power, and string its
\* formatted string: temp_string += string
sentence_times(sentence, word, string, self, count, temp_string) ==
    IF word.status # "ok" THEN Lift(word, self)
    ELSE sentence_product(invoke("PyMul", <<sentence, word.v>>), self, count,
                          temp_string \o string)

\* power = self.parse_number(False); string = "("+string+")"+"^"+str(power);
\* word = word ** power
sentence_power(sentence, w, power, count, temp_string) ==
    IF power.status # "ok" THEN power
    ELSE sentence_times(sentence, invoke("PyPow", <<w.v, power.v>>),
                        <<"(">> \o w.string \o <<")", "^">> \o str(power.v),
                        power.self, count, temp_string)

\* elif self.check_power(): self.parse_operator(True, False)
sentence_check_power(sentence, w, cp, count, temp_string) ==
    IF cp.v
    THEN sentence_power(sentence, w,
             invoke("parse_number",
                    <<skip_whitespace(parse_operator(cp.self, TRUE).self), FALSE>>),
             count, temp_string)
    ELSE sentence_times(sentence, Ok(w.v), w.string, cp.self, count, temp_string)

\* if self.check_number()
sentence_check_number(sentence, w, cn, count, temp_string) ==
    IF cn.v
    THEN sentence_power(sentence, w, invoke("parse_number", <<cn.self, FALSE>>),
                        count, temp_string)
    ELSE sentence_check_power(sentence, w, check_power(cn.self), count, temp_string)

\* word = self.parse_word()
sentence_word(sentence, w, count, temp_string) ==
    IF w.status # "ok" THEN w
    ELSE sentence_check_number(sentence, w, check_number(w.self), count,
                               temp_string)

\* while self.check_alpha(): "*" between the words; after the loop the
\* string goes to output_string, in parentheses when count > 1
sentence_check_alpha(sentence, ca, count, temp_string) ==
    IF ~ca.v
    THEN Returns(sentence,
                 add_output(ca.self, IF count > 1
                                     THEN <<"(">> \o temp_string \o <<")">>
                                     ELSE temp_string))
    ELSE sentence_word(sentence, invoke("parse_word", <<ca.self>>), count + 1,
                       IF count > 0 THEN temp_string \o <<"*">> ELSE temp_string)

\* the loop "while self.check_alpha()" of parse_sentence
sentence_loop(self, sentence, count, temp_string) ==
    sentence_check_alpha(sentence, check_alpha(self), count, temp_string)

\* parse_sentence reading a single word
parse_sentence_word(self) ==
    LET ca == check_alpha(self)
        w == invoke("parse_word", <<ca.self>>)
    IN  IF ~ca.v THEN Returns(Integer(1), ca.self)
        ELSE IF w.status # "ok" THEN w
        ELSE Lift(invoke("PyMul", <<Integer(1), w.v>>),
                  add_output(w.self, w.string))

parse_sentence(self) == sentence_loop(self, Integer(1), 0, << >>)

\* the value -v of the unary minus
Minus(r) == IF r.status # "ok" THEN r ELSE Returns(Negated(r.v), r.self)

\* the caller's parser after the nested parse.  The callee works on the
\* history object it is given: when that is the caller's own object, the
\* caller sees what the callee did to it.
reference_history(self, h) ==
    [self EXCEPT !.history = IF h.id = @.id THEN h ELSE @]

\* answer[0] of the nested parse, or its exception; answer[2] goes to
\* output_string, in parentheses unless it begins with "(" and ends with
\* ")".  answer[2][0] is read unguarded.
reference_answer(answer, self) ==
    IF answer.status # "ok"
    THEN Throws(answer.status, answer.msg, answer.at,
                reference_history(self, answer.history))
    ELSE IF answer.echo = << >>
    THEN Throws("IndexError", "", -1, reference_history(self, answer.history))
    ELSE Returns(answer.v,
                 add_output(reference_history(self, answer.history),
                            IF answer.echo[1] = "("
                                 /\ answer.echo[Len(answer.echo)] = ")"
                            THEN answer.echo
                            ELSE <<"(">> \o answer.echo \o <<")">>))

\* answer = new_p.parse(self.history.read(numb), self.history.copy()); a
\* chain of references that does not end exhausts Python's recursion limit
reference_read(self, entry) ==
    IF entry.status # "ok"
    THEN Throws("ParseError", "History retrieval out of range", -1, self)
    ELSE IF self.depth >= MaxDepth
    THEN Throws("RuntimeError", "maximum recursion depth exceeded", -1, self)
    ELSE reference_answer(
             invoke("QuantityParser_parse", <<[QuantityParser(FALSE, TRUE, FALSE) EXCEPT
                                      !.depth = self.depth + 1,
                                      !.order = self.order],
                                  entry.string, ParseHistory_copy(self.history)>>),
             self)

\* numb = self.parse_integer()
reference_numb(numb) ==
    IF numb.status # "ok" THEN numb
    ELSE reference_read(numb.self,
                        ParseHistory_read(numb.self.history.history, numb.v))

\* if self.check_number()
reference_check_number(cn) ==
    IF ~cn.v
    THEN Throws("ParseError", "expected an integer after #", cn.self.pos, cn.self)
    ELSE reference_numb(parse_integer(cn.self))

\* the branch "#n" of parse_powterm, at the character after "#"
parse_reference(self) == reference_check_number(check_number(self))

\* if self.pos < len(self.string) and self.string[self.pos]==")"
powterm_close(expr, self) ==
    IF ~AtEnd(self) /\ CharAt(self) = ")"
    THEN Returns(expr.v, Advance(add_output(self, <<")">>), 1))
    ELSE Throws("ParseError", "expected ')' after expression", self.pos, self)

\* expr = self.parse_expression()
powterm_expr(expr) ==
    IF expr.status # "ok" THEN expr
    ELSE powterm_close(expr, skip_whitespace(expr.self))

\* sent = self.parse_sentence(); return numb*sent
powterm_sent(numb, sent) ==
    IF sent.status # "ok" THEN sent
    ELSE Lift(invoke("PyMul", <<numb.v, sent.v>>), sent.self)

\* if self.check_alpha() after the number
powterm_numb_check_alpha(numb, ca) ==
    IF ~ca.v THEN Returns(numb.v, ca.self)
    ELSE powterm_sent(numb,
                      invoke("parse_sentence", <<add_output(ca.self, <<"*">>)>>))

\* numb = self.parse_number()
powterm_numb(numb) ==
    IF numb.status # "ok" THEN numb
    ELSE powterm_numb_check_alpha(numb, check_alpha(skip_whitespace(numb.self)))

\* op = self.parse_operator(): the powterm after the sign
powterm_op(o) ==
    IF o.v = TOK_PLUS THEN invoke("parse_powterm", <<skip_whitespace(o.self)>>)
    ELSE Minus(invoke("parse_powterm", <<skip_whitespace(o.self)>>))

\* elif self.check_plus()
powterm_check_plus(cp) ==
    IF cp.v THEN powterm_op(parse_operator(cp.self, TRUE))
    ELSE Throws("ParseError",
                "expected '(expression)', a number, a unit or a powerterm",
                cp.self.pos, cp.self)

\* elif self.check_alpha()
powterm_check_alpha(ca) ==
    IF ca.v THEN invoke("parse_sentence", <<ca.self>>)
    ELSE powterm_check_plus(check_plus(ca.self))

\* elif self.check_number()
powterm_check_number(cn) ==
    IF cn.v THEN powterm_numb(invoke("parse_number", <<cn.self, TRUE>>))
    ELSE powterm_check_alpha(check_alpha(cn.self))

\* self.string[self.pos] is read unguarded on entry
parse_powterm(self) ==
    IF AtEnd(self) THEN Throws("IndexError", "", -1, self)
    ELSE IF CharAt(self) = "("
    THEN powterm_expr(invoke("parse_expression",
                             <<skip_whitespace(Advance(add_output(self, <<"(">>), 1))>>))
    ELSE IF CharAt(self) = "#" THEN invoke("parse_reference", <<Advance(self, 1)>>)
    ELSE powterm_check_number(check_number(self))

\* get_exponent reading one powterm, without recursion
get_exponent_single(self) ==
    invoke("parse_powterm", <<skip_whitespace(parse_operator(skip_whitespace(self), TRUE).self)>>)

\* return powterm ** self.get_exponent()
exponent_higher(powterm, higher) ==
    IF higher.status # "ok" THEN higher
    ELSE Lift(invoke("PyPow", <<powterm.v, higher.v>>), higher.self)

\* if self.check_power()
exponent_check_power(powterm, cp) ==
    IF ~cp.v THEN Returns(powterm.v, cp.self)
    ELSE exponent_higher(powterm, invoke("get_exponent", <<cp.self>>))

\* powterm = self.parse_powterm()
exponent_powterm(powterm) ==
    IF powterm.status # "ok" THEN powterm
    ELSE exponent_check_power(powterm, check_power(powterm.self))

get_exponent(self) ==
    exponent_powterm(
        invoke("parse_powterm", <<skip_whitespace(parse_operator(skip_whitespace(self),
                                                     TRUE).self)>>))

\* return leading_powterm ** self.get_exponent()
factor_exponent(leading_powterm, exponent) ==
    IF exponent.status # "ok" THEN exponent
    ELSE Lift(invoke("PyPow", <<leading_powterm.v, exponent.v>>), exponent.self)

\* if self.check_power()
factor_check_power(leading_powterm, cp) ==
    IF ~cp.v THEN Returns(leading_powterm.v, cp.self)
    ELSE factor_exponent(leading_powterm, invoke("get_exponent", <<cp.self>>))

\* leading_powterm = self.parse_powterm()
factor_leading_powterm(leading_powterm) ==
    IF leading_powterm.status # "ok" THEN leading_powterm
    ELSE factor_check_power(leading_powterm, check_power(leading_powterm.self))

parse_factor(self) == factor_leading_powterm(invoke("parse_powterm", <<self>>))

RECURSIVE term_loop(_, _)

\* leading_factor *= factor or leading_factor /= factor
term_product(r, self) ==
    IF r.status # "ok" THEN Lift(r, self) ELSE term_loop(self, r.v)

\* factor = self.parse_factor()
term_factor(leading_factor, star, factor) ==
    IF factor.status # "ok" THEN factor
    ELSE term_product(IF star THEN invoke("PyMul", <<leading_factor, factor.v>>)
                      ELSE invoke("PyDiv", <<leading_factor, factor.v>>),
                      factor.self)

\* op = self.parse_operator()
term_op(leading_factor, o) ==
    term_factor(leading_factor, o.v = TOK_STAR,
                invoke("parse_factor", <<skip_whitespace(o.self)>>))

\* while self.check_times()
term_check_times(leading_factor, ct) ==
    IF ~ct.v THEN Returns(leading_factor, ct.self)
    ELSE term_op(leading_factor, parse_operator(skip_whitespace(ct.self), TRUE))

\* the loop "while self.check_times()" of parse_term
term_loop(self, leading_factor) ==
    term_check_times(leading_factor, check_times(self))

\* leading_factor = self.parse_factor()
term_leading_factor(leading_factor) ==
    IF leading_factor.status # "ok" THEN leading_factor
    ELSE term_loop(leading_factor.self, leading_factor.v)

parse_term(self) == term_leading_factor(invoke("parse_factor", <<self>>))

RECURSIVE expression_loop(_, _)

\* leading_term += term or leading_term -= term
expression_sum(r, self) ==
    IF r.status # "ok" THEN Lift(r, self) ELSE expression_loop(self, r.v)

\* term = self.parse_term()
expression_term(leading_term, plus, term) ==
    IF term.status # "ok" THEN term
    ELSE expression_sum(IF plus THEN invoke("PyAdd", <<leading_term, term.v>>)
                        ELSE invoke("PySub", <<leading_term, term.v>>),
                        term.self)

\* op = self.parse_operator()
expression_op(leading_term, o) ==
    expression_term(leading_term, o.v = TOK_PLUS,
                    invoke("parse_term", <<skip_whitespace(o.self)>>))

\* while self.check_plus()
expression_check_plus(leading_term, cp) ==
    IF ~cp.v THEN Returns(leading_term, cp.self)
    ELSE expression_op(leading_term,
                       parse_operator(skip_whitespace(cp.self), TRUE))

\* the loop "while self.check_plus()" of parse_expression
expression_loop(self, leading_term) ==
    expression_check_plus(leading_term, check_plus(self))

\* leading_term = self.parse_term()
expression_leading_term(leading_term) ==
    IF leading_term.status # "ok" THEN leading_term
    ELSE expression_loop(leading_term.self, leading_term.v)

parse_expression(self) ==
    IF AtEnd(self)
    THEN Throws("ParseError", "End of input reached before finished parsing", -1, self)
    ELSE expression_leading_term(invoke("parse_term", <<self>>))

\* variable_name without the removal of the blanks
variable_name_raw(self) == SubSeq(self.string, 1, self.pos - 1)

\* the name bound by an assignment, self being the parser after the "="
variable_name(self) ==
    SelectSeq(SubSeq(self.string, 1, self.pos - 1), LAMBDA c : c # " ")

\* the outcome q of parse_query_plain or parse_query_in as a method result
Query(q, self) ==
    IF q.status = "ok" THEN [Returns(q.v, self) EXCEPT !.shown = q.shown]
    ELSE Throws(q.status, "", -1, self)

\* the list that parse_query returns: r with the history string echo as its
\* third entry
WithEcho(r, echo) ==
    [status |-> r.status, v |-> r.v, shown |-> r.shown, msg |-> r.msg,
     at |-> r.at, self |-> r.self, echo |-> echo]

\* the third entry of the list of an assignment
assignment_echo(self, name) ==
    IF self.html THEN name \o <<" ", "=", " ">> \o self.output_string
    ELSE <<"<", "f", "o", "n", "t", " ", "c", "o", "l", "o", "r", " ", "=", " ", "'", "l", "i", "m", "e", "'", ">">> \o name \o <<"<", "/", "f", "o", "n", "t", ">">>

\* an assignment that binds the name before its expression is known to
\* have a value
query_target_eager(initial_expression, o, target) ==
    IF o.v = TOK_EQU
    THEN WithEcho([target EXCEPT !.self.history.defined_variables =
                      (variable_name(o.self) :> target.v) @@ @],
                  assignment_echo(target.self, variable_name(o.self)))
    ELSE IF target.status # "ok" THEN target
    ELSE WithEcho(Query(parse_query_in(initial_expression.v, target.v,
                                       target.self.false_requests,
                                       target.self.html),
                        target.self),
                  initial_expression.self.output_string)

\* the expression after the query operator: the value bound to the name,
\* or the target of the conversion
query_target(initial_expression, o, target) ==
    IF target.status # "ok" THEN target
    ELSE IF o.v = TOK_EQU
    THEN WithEcho(Returns(target.v,
                          [target.self EXCEPT !.history.defined_variables =
                              (variable_name(o.self) :> target.v) @@ @]),
                  assignment_echo(target.self, variable_name(o.self)))
    ELSE WithEcho(Query(parse_query_in(initial_expression.v, target.v,
                                       target.self.false_requests,
                                       target.self.html),
                        target.self),
                  initial_expression.self.output_string)

\* op = self.parse_query_op()
query_op(initial_expression, o) ==
    query_target(initial_expression, o, invoke("parse_expression", <<o.self>>))

\* if self.check_query_op()
query_check_query_op(initial_expression, cq) ==
    IF ~cq.v
    THEN WithEcho(Query(parse_query_plain(initial_expression.v), cq.self),
                  initial_expression.self.output_string)
    ELSE query_op(initial_expression, parse_query_op(cq.self, TRUE))

\* initial_expression = self.parse_expression(); lhs_string is the
\* output_string that the expression left, and self.output_string = ""
query_initial_expression(initial_expression) ==
    IF initial_expression.status # "ok" THEN initial_expression
    ELSE query_check_query_op(initial_expression,
             check_query_op([initial_expression.self EXCEPT
                                !.output_string = << >>]))

parse_query(self) == query_initial_expression(invoke("parse_expression", <<self>>))

imperial(string) ==
    LET s1 == replace(<<" ">> \o string \o <<" ">>, <<"I", "m", "p", "e", "r", "i", "a", "l">>, <<"i", "m", "p", "e", "r", "i", "a", "l">>)
        s2 == replace(s1, <<" ", "U", ".", "S", ".", " ">>, <<" ", "U", "S", " ">>)
        s3 == replace(s2, <<" ", "U", ".", "S", " ">>, <<" ", "U", "S", " ">>)
        s4 == replace(s3, <<" ", "o", "z", ".", " ">>, <<" ", "o", "u", "n", "c", "e", " ">>)
        s5 == replace(s4, <<" ", "o", "z", " ">>, <<" ", "o", "u", "n", "c", "e", " ">>)
        s6 == replace(s5, <<" ", "f", "l", ".", " ">>, <<" ", "f", "l", "u", "i", "d", " ">>)
        s7 == replace(s6, <<" ", "f", "l", " ">>, <<" ", "f", "l", "u", "i", "d", " ">>)
        s8 == replace(s7, <<"i", "m", "p", "e", "r", "i", "a", "l", " ", "g", "a", "l", "l", "o", "n">>, <<"i", "m", "p", "G", "a", "l">>)
        s9 == replace(s8, <<"U", "S", " ", "g", "a", "l", "l", "o", "n">>, <<"u", "s", "G", "a", "l">>)
        s10 == replace(s9, <<"g", "a", "l", "l", "o", "n">>, <<"i", "m", "p", "G", "a", "l">>)
        s11 == replace(s10, <<"i", "m", "p", "e", "r", "i", "a", "l", " ", "f", "l", "u", "i", "d", " ", "o", "u", "n", "c", "e">>, <<"i", "m", "p", "F", "l", "O", "z">>)
        s12 == replace(s11, <<"U", "S", " ", "f", "l", "u", "i", "d", " ", "o", "u", "n", "c", "e">>, <<"u", "s", "F", "l", "O", "z">>)
        s13 == replace(s12, <<"f", "l", "u", "i", "d", " ", "o", "u", "n", "c", "e">>, <<"i", "m", "p", "F", "l", "O", "z">>)
    IN  strip(s13)

\* the list that parse returns (or its exception), and the history object h
\* as the call left it
Answer(r, h) ==
    [status |-> r.status, v |-> r.v, shown |-> r.shown, msg |-> r.msg,
     at |-> r.at, echo |-> IF r.status = "ok" THEN r.echo ELSE << >>,
     history |-> h]

\* return self.parse_query()
parse_parse_query(r) == Answer(r, r.self.history)

\* self.string after imperial() and the two replacements
parse_string(stripped) ==
    replace(replace(imperial(stripped), <<" ", "i", "n", " ">>, <<" ", "%", " ">>), <<" ", "p", "e", "r", " ">>, <<"/">>)

\* self.string = string.strip() and the statements up to parse_query()
parse_strip(self, stripped, h) ==
    parse_parse_query(
        invoke("parse_query", <<[self EXCEPT !.history = [h EXCEPT
                                     !.history = ParseHistory_add(@, stripped)],
                                 !.fly_variables = EmptyFly,
                                 !.pos = 0,
                                 !.output_string = << >>,
                                 !.string = parse_string(stripped)]>>))

\* parse logging the input only once the query has been evaluated
QuantityParser_parse_late(self, string, h) ==
    LET r == invoke("parse_query", <<[self EXCEPT !.history = h,
                                      !.fly_variables = EmptyFly,
                                      !.pos = 0,
                                      !.output_string = << >>,
                                      !.string = parse_string(strip(string))]>>)
    IN  Answer(r, IF r.status # "ok" THEN r.self.history
                  ELSE [r.self.history EXCEPT
                           !.history = ParseHistory_add(@, strip(string))])

\* parse(string, history)
QuantityParser_parse(self, string, h) == parse_strip(self, strip(string), h)

invoke(method, args) ==
    CASE method = "parse_query" -> parse_query(args[1])
      [] method = "parse_expression" -> parse_expression(args[1])
      [] method = "parse_term" -> parse_term(args[1])
      [] method = "parse_factor" -> parse_factor(args[1])
      [] method = "get_exponent" -> get_exponent(args[1])
      [] method = "parse_powterm" -> parse_powterm(args[1])
      [] method = "parse_reference" -> parse_reference(args[1])
      [] method = "parse_sentence" -> parse_sentence(args[1])
      [] method = "parse_word" -> parse_word(args[1])
      [] method = "parse_number" -> parse_number(args[1], args[2])
      [] method = "QuantityParser_parse" ->
             QuantityParser_parse(args[1], args[2], args[3])
      [] method = "PyAdd" -> PyAdd(args[1], args[2])
      [] method = "PySub" -> PySub(args[1], args[2])
      [] method = "PyMul" -> PyMul(args[1], args[2])
      [] method = "PyDiv" -> PyDiv(args[1], args[2])
      [] method = "PyPow" -> PyPow(args[1], args[2])

\* the function parse of the module: a new parser and a new history
parse(string) ==
    QuantityParser_parse(QuantityParser(FALSE, TRUE, FALSE), string, ParseHistory)

(***************************************************************************)
(* units.py: UnitRegistry.  objs is the list of registered units.          *)
(***************************************************************************)
have_same_dimensions(obj1, obj2) ==
    Dimension__eq__(units_get_dimensions(obj1), units_get_dimensions(obj2))

UnitRegistry_add(objs, u) == Append(objs, u)

\* abs(float(x/o)) lies in [lo, hi)
RatioWithin(q, o, lo, hi) ==
    LET r == PyDiv(q, o).v.value
        a == [r EXCEPT !.n = Abs(r.n)]
    IN  RatLe(lo, a) /\ RatLt(a, hi)

\* __getitem__ with the range [1, 1000) of its docstring
UnitRegistry__getitem__documented(objs, q) ==
    LET matching == SelectSeq(objs, LAMBDA o : have_same_dimensions(o, q))
        floatrep == SelectSeq(matching,
                        LAMBDA o : RatioWithin(q, o, Rat(1, 1), Rat(1000, 1)))
    IN  IF Len(matching) = 0 THEN Raise("KeyError")
        ELSE IF Len(floatrep) > 0 THEN Ok(floatrep[1])
        ELSE Ok(matching[1])

UnitRegistry__getitem__(objs, q) ==
    LET matching == SelectSeq(objs, LAMBDA o : have_same_dimensions(o, q))
        floatrep == SelectSeq(matching,
                        LAMBDA o : RatioWithin(q, o, Rat(1, 10), Rat(100, 1)))
    IN  IF Len(matching) = 0 THEN Raise("KeyError")
        ELSE IF Len(floatrep) > 0 THEN Ok(floatrep[1])
        ELSE Ok(matching[1])

(***************************************************************************)
(* units.py: the three registries and _get_best_unit.  Nothing in the      *)
(* repository adds to additional_unit_register; register_new_unit adds to  *)
(* user_unit_register, which is the variable registry.                     *)
(***************************************************************************)
kilogram == Unit_create([i \in 1..NDims |-> IF i = 2 THEN 1 ELSE 0], One)
hertz == Unit_create([i \in 1..NDims |-> IF i = 3 THEN -1 ELSE 0], One)

\* map(standard_unit_register.add, base_units), for the base units kept here
standard_unit_register == <<metre, kilogram, second, hertz>>

additional_unit_register == << >>

register_new_unit(user_unit_register, u) == UnitRegistry_add(user_unit_register, u)

\* all the registered units as one registry
get_best_unit_of_all(q, regs) ==
    LET all == IF Len(regs) = 0 THEN << >>
               ELSE IF Len(regs) = 1 THEN regs[1]
               ELSE IF Len(regs) = 2 THEN regs[1] \o regs[2]
               ELSE regs[1] \o regs[2] \o regs[3]
        r == UnitRegistry__getitem__(all, q)
    IN  IF r.status = "ok" THEN r ELSE Ok(Quantity_with_dimensions(One, q.dim))

RECURSIVE get_best_unit_in(_, _)

\* except KeyError: pass, r being the outcome of regs[0][x]
get_best_unit_next(q, regs, r) ==
    IF r.status = "KeyError" THEN get_best_unit_in(q, Tail(regs)) ELSE r

\* for r in regs: try: return r[x] except KeyError: pass
get_best_unit_in(q, regs) ==
    IF Len(regs) = 0 THEN Ok(Quantity_with_dimensions(One, q.dim))
    ELSE get_best_unit_next(q, regs, UnitRegistry__getitem__(Head(regs), q))

\* _get_best_unit(x, *regs); user is the list of user_unit_register
get_best_unit(q, regs, user) ==
    IF units_get_dimensions(q) = Dimensionless
    THEN Ok(Quantity_with_dimensions(One, Dimensionless))
    ELSE get_best_unit_in(q, IF Len(regs) > 0 THEN regs
                             ELSE <<standard_unit_register, user,
                                    additional_unit_register>>)

(***************************************************************************)
(* State.  x and y are two live operand objects, op the last call with the *)
(* operands it was given, res what it returned or raised.  history is the  *)
(* log of a ParseHistory; added lists every string ever passed to add (the *)
(* k-th added string is k), deleted tells whether delete was called, and   *)
(* readres is the outcome of the last read.  false_requests and html are   *)
(* the parser's construction flags.                                        *)
(***************************************************************************)
MaxValue == 3
MaxAdds == 250
MaxParses == 2

Dims == {Dimensionless, Length, Time}
Values == {[n |-> i, d |-> 1] : i \in -1..MaxValue}

Flies == {EmptyFly, [k \in {"house"} |-> 1], [k \in {"house"} |-> -1],
          [k \in {"flat"} |-> 1]}

Numbers == {Num(v) : v \in Values}
Quantities == {Quantity_with_dimensions(v, d) : v \in Values, d \in Dims}
Units == {metre, second}
Flyquants ==
    {Flyquant(f, Quantity_with_dimensions(v, d)) :
        f \in Flies, v \in Values, d \in {Dimensionless, Length}}

Operands == Numbers \cup Quantities \cup Units \cup Flyquants

NoCall == [name |-> "none", a |-> NoValue, b |-> NoValue]
Call(name, a, b) == [name |-> name, a |-> a, b |-> b]
NoRead == [status |-> "none", pos |-> 0, string |-> 0]

InitAlgebra ==
    /\ x \in Operands
    /\ y \in Operands
    /\ op = NoCall
    /\ res = Raise("none")
    /\ false_requests = FALSE
    /\ html = FALSE
    /\ history = << >>
    /\ added = << >>
    /\ deleted = FALSE
    /\ readres = NoRead
    /\ input = << >>
    /\ defined_variables = EmptyFly
    /\ on_the_fly = TRUE
    /\ dict_order = "forward"
    /\ registry = << >>

Add ==
    /\ op' = Call("add", x, y)
    /\ res' = PyAdd(x, y)
    /\ UNCHANGED <<x, y, false_requests, html, history, added, deleted, readres,
                   input, defined_variables, on_the_fly, dict_order, registry>>

\* y.__neg__() inside Flyquant.__sub__ / __rsub__ negates the Flyquant y itself
Sub ==
    /\ op' = Call("sub", x, y)
    /\ res' = PySub(x, y)
    /\ y' = IF IsFlyquant(y) THEN Flyquant__neg__(y) ELSE y
    /\ UNCHANGED <<x, false_requests, html, history, added, deleted, readres,
                   input, defined_variables, on_the_fly, dict_order, registry>>

Mul ==
    /\ op' = Call("mul", x, y)
    /\ res' = PyMul(x, y)
    /\ UNCHANGED <<x, y, false_requests, html, history, added, deleted, readres,
                   input, defined_variables, on_the_fly, dict_order, registry>>

Div ==
    /\ op' = Call("div", x, y)
    /\ res' = PyDiv(x, y)
    /\ UNCHANGED <<x, y, false_requests, html, history, added, deleted, readres,
                   input, defined_variables, on_the_fly, dict_order, registry>>

Pow ==
    /\ ~is_scalar_type(x)
    /\ op' = Call("pow", x, y)
    /\ res' = PyPow(x, y)
    /\ UNCHANGED <<x, y, false_requests, html, history, added, deleted, readres,
                   input, defined_variables, on_the_fly, dict_order, registry>>

\* x < y, ..., x != y for a Quantity x and a Quantity or number y
Compare ==
    /\ IsQuantity(x)
    /\ ~IsFlyquant(y)
    /\ \E name \in {"lt", "le", "gt", "ge", "eq", "ne"} :
          /\ op' = Call(name, x, y)
          /\ res' = PyCompare(name, x, y)
    /\ UNCHANGED <<x, y, false_requests, html, history, added, deleted, readres,
                   input, defined_variables, on_the_fly, dict_order, registry>>

\* fly(x) replaces the operand by its Flyquant
Fly ==
    /\ ~IsFlyquant(x)
    /\ op' = Call("fly", x, NoValue)
    /\ res' = Ok(fly(x))
    /\ x' = fly(x)
    /\ UNCHANGED <<y, false_requests, html, history, added, deleted, readres,
                   input, defined_variables, on_the_fly, dict_order, registry>>

NextAlgebra == Add \/ Sub \/ Mul \/ Div \/ Pow \/ Compare \/ Fly

SpecAlgebra == InitAlgebra /\ [][NextAlgebra]_vars

(***************************************************************************)
(* parse: the input string is logged, then the query is evaluated.  The    *)
(* operands are the values parse_expression returns for the two sides.     *)
(***************************************************************************)
ParsedScalars == {Zero, [n |-> 3, d |-> 1]}

\* "3", "3 meters", "3 seconds", "miles", "3 houses", "3 meters houses", and
\* Flyquants whose fly part cancelled, as left by multiply and divide
ParsedValues ==
    {Num(v) : v \in ParsedScalars}
        \cup {Quantity_with_dimensions(v, d) : v \in ParsedScalars, d \in Dims}
        \cup {Quantity_with_dimensions(mile.value, mile.dim)}
        \cup {Flyquant(f, Quantity_with_dimensions(v, d)) :
                 f \in {EmptyFly, [k \in {"house"} |-> 1]},
                 v \in ParsedScalars, d \in {Dimensionless, Length}}

InitParse ==
    /\ x = NoValue
    /\ y = NoValue
    /\ op = NoCall
    /\ res = Raise("none")
    /\ false_requests \in BOOLEAN
    /\ html \in BOOLEAN
    /\ history = << >>
    /\ added = << >>
    /\ deleted = FALSE
    /\ readres = NoRead
    /\ input = << >>
    /\ defined_variables = EmptyFly
    /\ on_the_fly = TRUE
    /\ dict_order = "forward"
    /\ registry = << >>

ParsePlain ==
    /\ Len(added) < MaxParses
    /\ \E e1 \in ParsedValues :
          /\ op' = Call("parse", e1, NoValue)
          /\ res' = parse_query_plain(e1)
    /\ history' = ParseHistory_add(history, Len(added) + 1)
    /\ added' = Append(added, Len(added) + 1)
    /\ UNCHANGED <<x, y, false_requests, html, deleted, readres,
                   input, defined_variables, on_the_fly, dict_order, registry>>

ParseIn ==
    /\ Len(added) < MaxParses
    /\ \E e1, e2 \in ParsedValues :
          /\ op' = Call("parse_in", e1, e2)
          /\ res' = parse_query_in(e1, e2, false_requests, html)
    /\ history' = ParseHistory_add(history, Len(added) + 1)
    /\ added' = Append(added, Len(added) + 1)
    /\ UNCHANGED <<x, y, false_requests, html, deleted, readres,
                   input, defined_variables, on_the_fly, dict_order, registry>>

NextParse == ParsePlain \/ ParseIn

SpecParse == InitParse /\ [][NextParse]_vars

(***************************************************************************)
(* A ParseHistory on its own: add, read and (once) delete                  *)
(***************************************************************************)
InitHistory ==
    /\ x = NoValue
    /\ y = NoValue
    /\ op = NoCall
    /\ res = Raise("none")
    /\ false_requests = FALSE
    /\ html = FALSE
    /\ history = << >>
    /\ added = << >>
    /\ deleted = FALSE
    /\ readres = NoRead
    /\ input = << >>
    /\ defined_variables = EmptyFly
    /\ on_the_fly = TRUE
    /\ dict_order = "forward"
    /\ registry = << >>

HistoryAdd ==
    /\ Len(added) < MaxAdds
    /\ history' = ParseHistory_add(history, Len(added) + 1)
    /\ added' = Append(added, Len(added) + 1)
    /\ readres' = NoRead
    /\ UNCHANGED <<x, y, op, res, false_requests, html, deleted,
                   input, defined_variables, on_the_fly, dict_order, registry>>

HistoryRead ==
    /\ \E pos \in {-1, 0, ParseHistory_length(history) - 1,
                   ParseHistory_length(history)} :
          readres' = ParseHistory_read(history, pos)
    /\ UNCHANGED <<x, y, op, res, false_requests, html, history, added, deleted,
                   input, defined_variables, on_the_fly, dict_order, registry>>

\* delete(0) or delete(-1) on a non-empty log
HistoryDelete ==
    /\ ~deleted
    /\ ParseHistory_length(history) > 0
    /\ \E pos \in {0, -1} : history' = ParseHistory_delete(history, pos)
    /\ deleted' = TRUE
    /\ readres' = NoRead
    /\ UNCHANGED <<x, y, op, res, false_requests, html, added,
                   input, defined_variables, on_the_fly, dict_order, registry>>

NextHistory == HistoryAdd \/ HistoryRead \/ HistoryDelete

SpecHistory == InitHistory /\ [][NextHistory]_vars

(***************************************************************************)
(* The parser on strings.  input is the input of the parse call,          *)
(* history and defined_variables the two fields of the session's           *)
(* ParseHistory h; on_the_fly is the parser's construction flag and        *)
(* dict_order the iteration order of the build's dictionaries.  op.a is    *)
(* the input given to the last call and res its outcome: status, v, shown  *)
(* and the history string echo, the message msg of the exception and the   *)
(* position at it carries.                                                 *)
(***************************************************************************)
MaxTokens == 2
MaxSession == 3

Outcome(r) ==
    [status |-> r.status, v |-> r.v, shown |-> r.shown, msg |-> r.msg, at |-> r.at,
     echo |-> r.echo]

Tokens == {"2", "3", " ", "+", "-", "*", "/", "^", "(", ")", "#", ".", "s", "="}

\* every input of at most k tokens
RECURSIVE TokenStrings(_)
TokenStrings(k) ==
    IF k = 0 THEN {<< >>}
    ELSE LET shorter == TokenStrings(k - 1)
         IN  shorter \cup {Append(s, t) : s \in {u \in shorter : Len(u) = k - 1},
                                          t \in Tokens}

Literals == {<<"2">>, <<"3">>}

Spaced == {<<" ", "+", " ">>, <<" ", "-", " ">>, <<" ", "*", " ">>, <<" ", "/", " ">>, <<" ", "^", " ">>, <<" ", "*", "*", " ">>}

Operators == {<<"+">>, <<"-">>, <<"*">>, <<"/">>, <<"^">>, <<"*", "*">>} \cup Spaced

\* a o1 b for every operator, a o1 b o2 c for the spaced ones
Expressions ==
    {a \o o1 \o b : a \in Literals, o1 \in Operators, b \in Literals}
        \cup {a \o o1 \o b \o o2 \o c :
                 a \in Literals, o1 \in Spaced, b \in Literals,
                 o2 \in Spaced, c \in Literals}

Words == {<<"m", "e", "t", "e", "r">>, <<"s", "e", "c", "o", "n", "d">>, <<"m", "i", "n", "u", "t", "e">>, <<"t", "e", "n">>, <<"h", "o", "u", "s", "e">>, <<"f", "l", "a", "t">>}

\* 'a / w1 w2' and 'a / w1 * w2'
Products ==
    {a \o <<" ", "/", " ">> \o w1 \o sep \o w2 :
        a \in Literals, w1 \in Words, sep \in {<<" ">>, <<" ", "*", " ">>}, w2 \in Words}

Vocabulary ==
    {<<"m", "e", "t", "e", "r">>, <<"m", "e", "t", "e", "r", "s">>, <<"m", "e", "t", "r", "e">>, <<"m">>, <<"s">>, <<"m", "i", "n">>, <<"m", "i", "n", "u", "t", "e", "s">>, <<"k", "m">>, <<"m", "m">>, <<"m", "s">>,
     <<"k", "i", "l", "o", "m", "e", "t", "e", "r">>, <<"k", "i", "l", "o", "m", "e", "t", "e", "r", "s">>, <<"k", "i", "l", "o", "m", "e", "t", "r", "e">>, <<"k", "i", "l", "o", "m", "e", "t", "r", "e", "s">>, <<"m", "i", "l", "l", "i", "m", "e", "t", "e", "r">>,
     <<"c", "e", "n", "t", "i", "m", "e", "t", "e", "r", "s">>, <<"k", "i", "l", "o", "s", "e", "c", "o", "n", "d", "s">>, <<"t", "e", "n">>, <<"t", "e", "n", "s">>, <<"h", "u", "n", "d", "r", "e", "d">>, <<"k", "i", "l", "o">>, <<"h", "o", "u", "s", "e">>,
     <<"h", "o", "u", "s", "e", "s">>, <<"m", "h", "o", "u", "s", "e">>, <<"x">>, <<"i", "m", "p", "G", "a", "l">>, <<"g", "a", "l", "l", "o", "n">>, <<"g", "a", "l", "l", "o", "n", "s">>, <<"k", "i", "l", "o", "g", "a", "l", "l", "o", "n">>,
     <<"h", "a", "l", "f", "g", "a", "l", "l", "o", "n">>, <<"m", "i", "l", "e", "s">>}

\* inputs that end where a digit, an operand or a parenthesis is expected,
\* and inputs with a parenthesis or a character too many
Truncated ==
    {<<"3", ".">>, <<"2", " ", "+">>, <<"2", " ", "/", " ">>, <<"2", " ", "^">>, <<"2", " ", "=", " ">>, <<"x", " ", "=">>, <<"(", "2", " ">>, <<"(", "2", " ", "+">>, <<"(", "(", "2", ")">>, <<"#", " ", "1">>,
     <<"2", " ", "+", " ", ")">>, <<"(", "2", ")", ")">>, <<"2", " ", "3">>, <<"2", ".", "3", ".">>, <<"2", " ", "#">>}

\* literals I.F and I.FeN: fractions with and without a leading zero, with
\* and without a final zero
IntegerParts == {<<"3">>, <<"1", "2">>}

FractionParts == {<<"5">>, <<"0", "5">>, <<"1", "0">>, <<"2", "5">>, <<"5", "0">>}

ExponentParts == {<< >>, <<"e", "2">>, <<"e", "-", "1">>, <<"E", "+", "1">>}

NumberLiterals ==
    {i \o <<".">> \o f \o e :
        i \in IntegerParts, f \in FractionParts, e \in ExponentParts}

\* words that are no unit, number word or variable, counted in the singular
\* and in the plural: 'a w + b ws' and 'b ws + a w'
NewWords == {<<"f", "l", "a", "t">>, <<"h", "o", "u", "s", "e">>}

SingularFirst(a, w, b) == a \o <<" ">> \o w \o <<" ", "+", " ">> \o b \o <<" ">> \o w \o <<"s">>

PluralFirst(a, w, b) == b \o <<" ">> \o w \o <<"s", " ", "+", " ">> \o a \o <<" ">> \o w

PluralSums ==
    {SingularFirst(a, w, b) : a \in Literals, w \in NewWords, b \in Literals}
        \cup {PluralFirst(a, w, b) : a \in Literals, w \in NewWords, b \in Literals}

\* a word with a power, written with and without the operator
WordPowers == {<<"m", "e", "t", "e", "r", "^", "2">>, <<"m", "e", "t", "e", "r", "*", "*", "2">>, <<"m", "e", "t", "e", "r", " ", "^", " ", "2">>, <<"m", "e", "t", "e", "r", " ", "2">>, <<"m", "e", "t", "e", "r", "2">>}

SyntaxInputs ==
    TokenStrings(MaxTokens) \cup Expressions \cup Products \cup Vocabulary
        \cup {<<"3", " ">> \o w : w \in Vocabulary} \cup Truncated
        \cup NumberLiterals \cup PluralSums \cup WordPowers

\* an input with a word: what on_the_fly and the order of the prefix tables
\* decide
HasWord(s) == \E i \in 1..Len(s) : isalpha(s[i])

InitSyntax ==
    /\ x = NoValue
    /\ y = NoValue
    /\ op = NoCall
    /\ res = Raise("none")
    /\ false_requests = FALSE
    /\ html = FALSE
    /\ history = << >>
    /\ added = << >>
    /\ deleted = FALSE
    /\ readres = NoRead
    /\ input \in SyntaxInputs
    /\ defined_variables = EmptyFly
    /\ on_the_fly \in IF HasWord(input) THEN BOOLEAN ELSE {TRUE}
    /\ dict_order \in IF HasWord(input) THEN DictOrders ELSE {"forward"}
    /\ registry = << >>

\* QuantityParser(html, on_the_fly, false_requests).parse(input, ParseHistory())
ParseString ==
    /\ op.name = "none"
    /\ \E r \in {QuantityParser_parse(
                      [QuantityParser(html, on_the_fly, false_requests) EXCEPT
                          !.order = dict_order],
                      input, ParseHistory)} :
          /\ op' = Call("parse", input, NoValue)
          /\ res' = Outcome(r)
          /\ history' = r.history.history
          /\ defined_variables' = r.history.defined_variables
    /\ added' = Append(added, strip(input))
    /\ UNCHANGED <<x, y, false_requests, html, deleted, readres, input,
                   on_the_fly, dict_order, registry>>

NextSyntax == ParseString

SpecSyntax == InitSyntax /\ [][NextSyntax]_vars

(***************************************************************************)
(* A session: one parser p = QuantityParser() and one ParseHistory h, as   *)
(* in the command loop, next to calls of the module's parse(input) and of *)
(* h.read                                                                  *)
(***************************************************************************)
SessionInputs == {<<"x", " ", "=", " ", "3">>, <<"x", " ", "=", " ", "2">>, <<"x", " ", "=", " ", "2", " ", "+", " ", "s">>, <<" ", "x">>, <<"#", "0">>, <<"#", "1">>, <<"(", "2", " ">>}

InitSession ==
    /\ x = NoValue
    /\ y = NoValue
    /\ op = Call("none", << >>, NoValue)
    /\ res = Raise("none")
    /\ false_requests = FALSE
    /\ html = FALSE
    /\ history = << >>
    /\ added = << >>
    /\ deleted = FALSE
    /\ readres = NoRead
    /\ input = << >>
    /\ defined_variables = EmptyFly
    /\ on_the_fly \in BOOLEAN
    /\ dict_order = "forward"
    /\ registry = << >>

\* p.parse(input', h)
SessionParse ==
    /\ Len(added) < MaxSession
    /\ input' \in SessionInputs
    /\ \E r \in {QuantityParser_parse(
                      [QuantityParser(html, on_the_fly, false_requests) EXCEPT
                          !.order = dict_order],
                      input',
                      [ParseHistory EXCEPT
                          !.history = history,
                          !.defined_variables = defined_variables])} :
          /\ op' = Call("parse", input', NoValue)
          /\ res' = Outcome(r)
          /\ history' = r.history.history
          /\ defined_variables' = r.history.defined_variables
    /\ added' = Append(added, strip(input'))
    /\ readres' = NoRead
    /\ UNCHANGED <<x, y, false_requests, html, deleted, on_the_fly, dict_order,
                   registry>>

\* parse(name) for a name bound in h: another parser with another
\* ParseHistory
SessionParseFresh ==
    /\ \E name \in DOMAIN defined_variables :
          /\ op' = Call("parse_fresh", name, NoValue)
          /\ res' = Outcome(parse(name))
    /\ readres' = NoRead
    /\ UNCHANGED <<x, y, false_requests, html, history, added, deleted, input,
                   defined_variables, on_the_fly, dict_order, registry>>

\* h.read(pos)
SessionRead ==
    /\ \E pos \in {-1, 0, ParseHistory_length(history) - 1,
                   ParseHistory_length(history)} :
          readres' = ParseHistory_read(history, pos)
    /\ op' = Call("read", << >>, NoValue)
    /\ res' = Raise("none")
    /\ UNCHANGED <<x, y, false_requests, html, history, added, deleted, input,
                   defined_variables, on_the_fly, dict_order, registry>>

NextSession == SessionParse \/ SessionParseFresh \/ SessionRead

SpecSession == InitSession /\ [][NextSession]_vars

(***************************************************************************)
(* Dimensions on their own: x and y are two Dimension objects, x is        *)
(* replaced by a product, a quotient or a power                            *)
(***************************************************************************)
MaxExponent == 2

Luminosity == [i \in 1..NDims |-> IF i = 7 THEN 1 ELSE 0]

BaseDimensions == {Length, Time, Luminosity}

Bounded(dim) == \A i \in 1..NDims : Abs(dim[i]) <= MaxExponent

InitDimension ==
    /\ x = Dimensionless
    /\ y \in BaseDimensions
    /\ op = NoCall
    /\ res = Raise("none")
    /\ false_requests = FALSE
    /\ html = FALSE
    /\ history = << >>
    /\ added = << >>
    /\ deleted = FALSE
    /\ readres = NoRead
    /\ input = << >>
    /\ defined_variables = EmptyFly
    /\ on_the_fly = TRUE
    /\ dict_order = "forward"
    /\ registry = << >>

DimensionMul ==
    /\ Bounded(Dimension__mul__(x, y))
    /\ x' = Dimension__mul__(x, y)
    /\ y' \in BaseDimensions
    /\ UNCHANGED <<op, res, false_requests, html, history, added, deleted, readres,
                   input, defined_variables, on_the_fly, dict_order, registry>>

DimensionDiv ==
    /\ Bounded(Dimension__div__(x, y))
    /\ x' = Dimension__div__(x, y)
    /\ y' \in BaseDimensions
    /\ UNCHANGED <<op, res, false_requests, html, history, added, deleted, readres,
                   input, defined_variables, on_the_fly, dict_order, registry>>

DimensionPow ==
    /\ \E k \in {-1, 0, 2} :
          /\ Bounded(Dimension__pow__(x, k))
          /\ x' = Dimension__pow__(x, k)
    /\ UNCHANGED <<y, op, res, false_requests, html, history, added, deleted,
                   readres, input, defined_variables, on_the_fly, dict_order, registry>>

NextDimension == DimensionMul \/ DimensionDiv \/ DimensionPow

SpecDimension == InitDimension /\ [][NextDimension]_vars

(***************************************************************************)
(* A UnitRegistry: units are added, then a unit is looked up for x         *)
(***************************************************************************)
MaxUnits == 3

\* units.py: kilogram; there is no unit of mass among RegistryUnits
Mass == [i \in 1..NDims |-> IF i = 2 THEN 1 ELSE 0]

RegistryUnits == {metre, ALL_UNITS[<<"k", "i", "l", "o", "m", "e", "t", "e", "r">>], second, ALL_UNITS[<<"m", "i", "n", "u", "t", "e">>]}

Lookups ==
    {Quantity_with_dimensions(v, d) :
        v \in {Rat(1, 20), Rat(1, 10), Rat(3, 1), Rat(-99, 1), Rat(100, 1),
               Rat(3000, 1)},
        d \in {Length, Time, Mass}}

InitRegistry ==
    /\ x = NoValue
    /\ y = NoValue
    /\ op = NoCall
    /\ res = Raise("none")
    /\ false_requests = FALSE
    /\ html = FALSE
    /\ history = << >>
    /\ added = << >>
    /\ deleted = FALSE
    /\ readres = NoRead
    /\ input = << >>
    /\ defined_variables = EmptyFly
    /\ on_the_fly = TRUE
    /\ dict_order = "forward"
    /\ registry = << >>

RegistryAdd ==
    /\ Len(registry) < MaxUnits
    /\ \E u \in RegistryUnits : registry' = UnitRegistry_add(registry, u)
    /\ op' = NoCall
    /\ res' = Raise("none")
    /\ UNCHANGED <<x, y, false_requests, html, history, added, deleted, readres,
                   input, defined_variables, on_the_fly, dict_order>>

RegistryGet ==
    /\ \E q \in Lookups :
          /\ op' = Call("getitem", q, NoValue)
          /\ res' = UnitRegistry__getitem__(registry, q)
    /\ UNCHANGED <<x, y, false_requests, html, history, added, deleted, readres,
                   input, defined_variables, on_the_fly, dict_order, registry>>

NextRegistry == RegistryAdd \/ RegistryGet

SpecRegistry == InitRegistry /\ [][NextRegistry]_vars

(***************************************************************************)
(* Flydims on their own: x is a Flydim that is multiplied with or divided  *)
(* by the Flydim y, inverted, or raised to a plain number                  *)
(***************************************************************************)
FlyNames == {"house", "flat"}

FlyBounded(v) == \A k \in DOMAIN v.fly : Abs(v.fly[k]) <= MaxExponent

InitFlydim ==
    /\ x = Flydim("house")
    /\ y \in {Flydim(name) : name \in FlyNames}
    /\ op = NoCall
    /\ res = Raise("none")
    /\ false_requests = FALSE
    /\ html = FALSE
    /\ history = << >>
    /\ added = << >>
    /\ deleted = FALSE
    /\ readres = NoRead
    /\ input = << >>
    /\ defined_variables = EmptyFly
    /\ on_the_fly = TRUE
    /\ dict_order = "forward"
    /\ registry = << >>

\* x = x * y
FlydimMul ==
    /\ \E r \in {PyMul(x, y)} :
          /\ r.status = "ok"
          /\ FlyBounded(r.v)
          /\ op' = Call("mul", x, y)
          /\ res' = r
          /\ x' = r.v
    /\ UNCHANGED <<y, false_requests, html, history, added, deleted, readres,
                   input, defined_variables, on_the_fly, dict_order, registry>>

\* x = x / y
FlydimDiv ==
    /\ \E r \in {PyDiv(x, y)} :
          /\ r.status = "ok"
          /\ FlyBounded(r.v)
          /\ op' = Call("div", x, y)
          /\ res' = r
          /\ x' = r.v
    /\ UNCHANGED <<y, false_requests, html, history, added, deleted, readres,
                   input, defined_variables, on_the_fly, dict_order, registry>>

\* x = x.invert()
FlydimInvert ==
    /\ op' = Call("invert", x, NoValue)
    /\ res' = Ok([x EXCEPT !.fly = Flydim_invert(x.fly)])
    /\ x' = [x EXCEPT !.fly = Flydim_invert(x.fly)]
    /\ UNCHANGED <<y, false_requests, html, history, added, deleted, readres,
                   input, defined_variables, on_the_fly, dict_order, registry>>

\* x = x ** n
FlydimPow ==
    /\ \E n \in -1..MaxExponent :
          \E r \in {PyPow(x, Integer(n))} :
              /\ r.status = "ok"
              /\ FlyBounded(r.v)
              /\ op' = Call("pow", x, Integer(n))
              /\ res' = r
              /\ x' = r.v
    /\ UNCHANGED <<y, false_requests, html, history, added, deleted, readres,
                   input, defined_variables, on_the_fly, dict_order, registry>>

\* the other operand
FlydimOther ==
    /\ y' \in {Flydim(name) : name \in FlyNames}
    /\ y' # y
    /\ op' = NoCall
    /\ res' = Raise("none")
    /\ UNCHANGED <<x, false_requests, html, history, added, deleted, readres,
                   input, defined_variables, on_the_fly, dict_order, registry>>

NextFlydim == FlydimMul \/ FlydimDiv \/ FlydimInvert \/ FlydimPow \/ FlydimOther

SpecFlydim == InitFlydim /\ [][NextFlydim]_vars

(***************************************************************************)
(* The registries: units are registered by the user, then the best unit   *)
(* is looked up for x, in the three registries or in a given list          *)
(***************************************************************************)
Velocity == Dimension__div__(Length, Time)
Area == Dimension__mul__(Length, Length)

UserUnits ==
    {ALL_UNITS[<<"k", "i", "l", "o", "m", "e", "t", "e", "r">>], ALL_UNITS[<<"m", "i", "n", "u", "t", "e">>], Unit_create(Velocity, One),
     Unit_create(Velocity, Rat(1000, 1))}

BestUnitLookups ==
    {Quantity_with_dimensions(v, d) :
        v \in {Rat(3, 1), Rat(3000, 1)},
        d \in {Length, Time, Velocity, Area, Dimensionless}}

InitBestUnit ==
    /\ x = NoValue
    /\ y = NoValue
    /\ op = NoCall
    /\ res = Raise("none")
    /\ false_requests = FALSE
    /\ html = FALSE
    /\ history = << >>
    /\ added = << >>
    /\ deleted = FALSE
    /\ readres = NoRead
    /\ input = << >>
    /\ defined_variables = EmptyFly
    /\ on_the_fly = TRUE
    /\ dict_order = "forward"
    /\ registry = << >>

\* register_new_unit(u)
RegisterNewUnit ==
    /\ Len(registry) < MaxUnits
    /\ \E u \in UserUnits : registry' = register_new_unit(registry, u)
    /\ op' = NoCall
    /\ res' = Raise("none")
    /\ UNCHANGED <<x, y, false_requests, html, history, added, deleted, readres,
                   input, defined_variables, on_the_fly, dict_order>>

\* _get_best_unit(q)
BestUnit ==
    /\ \E q \in BestUnitLookups :
          /\ op' = Call("best_unit", q, << >>)
          /\ res' = get_best_unit(q, << >>, registry)
    /\ UNCHANGED <<x, y, false_requests, html, history, added, deleted, readres,
                   input, defined_variables, on_the_fly, dict_order, registry>>

\* _get_best_unit(q, user_unit_register, standard_unit_register)
BestUnitOfList ==
    /\ \E q \in BestUnitLookups :
          /\ op' = Call("best_unit", q, <<registry, standard_unit_register>>)
          /\ res' = get_best_unit(q, <<registry, standard_unit_register>>, registry)
    /\ UNCHANGED <<x, y, false_requests, html, history, added, deleted, readres,
                   input, defined_variables, on_the_fly, dict_order, registry>>

NextBestUnit == RegisterNewUnit \/ BestUnit \/ BestUnitOfList

SpecBestUnit == InitBestUnit /\ [][NextBestUnit]_vars

(***************************************************************************)
(* Properties of the Quantity and Unit algebra (SpecAlgebra)               *)
(***************************************************************************)
DimensionMismatch == res.status = "DimensionMismatchError"

CompareNames == {"lt", "le", "gt", "ge", "eq", "ne"}

\* the comparison called name, on plain numbers
Compares(name, a, b) ==
    CASE name = "lt" -> RatLt(a, b)
      [] name = "le" -> RatLe(a, b)
      [] name = "gt" -> RatLt(b, a)
      [] name = "ge" -> RatLe(b, a)
      [] name = "eq" -> a = b
      [] name = "ne" -> a # b

\* C1: for Quantities a and b whose Dimensions differ, a + b and a - b fail
\* with DimensionMismatch, whatever the values of a and b.
C1_MismatchedAddSubRejected ==
    (op.name \in {"add", "sub"} /\ IsQuantity(op.a) /\ IsQuantity(op.b)
        /\ op.a.dim # op.b.dim)
    => DimensionMismatch

\* C2: for every Quantity q the plain scalar 0 is accepted on either side of
\* add and subtract: q + 0, 0 + q and q - 0 give q, 0 - q gives -q, each with
\* the Dimension of q.
C2_ScalarZeroAccepted ==
    /\ (op.name \in {"add", "sub"} /\ IsQuantity(op.a) /\ op.b = Num(Zero))
        => res = Ok(Quantity_with_dimensions(op.a.value, op.a.dim))
    /\ (op.name = "add" /\ op.a = Num(Zero) /\ IsQuantity(op.b))
        => res = Ok(Quantity_with_dimensions(op.b.value, op.b.dim))
    /\ (op.name = "sub" /\ op.a = Num(Zero) /\ IsQuantity(op.b))
        => res = Ok(Quantity_with_dimensions(RatNeg(op.b.value), op.b.dim))

\* C3: each of the six comparisons of a Quantity a fails with
\* DimensionMismatch against a Quantity of another Dimension, and, when a is
\* not dimensionless, against a non-zero plain scalar; against the scalar 0
\* it never fails and compares the value of a with 0.
C3_ComparisonsDimensionChecked ==
    (op.name \in CompareNames /\ IsQuantity(op.a))
    => /\ (IsQuantity(op.b) /\ op.a.dim # op.b.dim) => DimensionMismatch
       /\ (is_scalar_type(op.b) /\ op.b.value # Zero
              /\ op.a.dim # Dimensionless) => DimensionMismatch
       /\ op.b = Num(Zero)
              => res = Ok(Bool(Compares(op.name, op.a.value, Zero)))

\* C4: for a base that is a Quantity or a Unit and an exponent e that is a
\* Quantity: if e is not dimensionless the power fails with
\* DimensionMismatch, otherwise the result has value base.value ** e.value
\* and the base Dimension with every exponent multiplied by e.value.
C4_PowerByQuantity ==
    (op.name = "pow" /\ IsQuantity(op.a) /\ IsQuantity(op.b))
    => IF op.b.dim # Dimensionless THEN DimensionMismatch
       ELSE (op.a.value = Zero /\ op.b.value.n < 0)
            \/ /\ res.status = "ok"
               /\ res.v.value = FloatPow(op.a.value, op.b.value)
               /\ res.v.dim = [i \in 1..NDims |-> op.a.dim[i] * op.b.value.n]

(***************************************************************************)
(* Properties of the Flyquant algebra (SpecAlgebra)                        *)
(***************************************************************************)
\* the simplest type that represents a value of the given dimension parts
SimplestKind(dim, flydim) ==
    IF flydim # EmptyFly THEN "flyquant"
    ELSE IF dim # Dimensionless THEN "quantity"
    ELSE "num"

\* C5: the product or quotient of two Flyquants is never a Flyquant with an
\* empty fly part: with inverse fly parts it is a plain Quantity, and for
\* two numbers wrapped by fly() a plain number.
C5_MulDivCollapse ==
    (op.name \in {"mul", "div"} /\ IsFlyquant(op.a) /\ IsFlyquant(op.b)
        /\ res.status = "ok")
    => ~(res.v.kind = "flyquant" /\ res.v.fly = EmptyFly)

\* C6: for a Flyquant x (of any value) and a Flyquant, Quantity or number y:
\* when the combined dimensions agree, x + y and x - y succeed with value
\* value(x) + value(y) resp. value(x) - value(y) in the simplest type;
\* when they differ the operation fails with DimensionMismatch.
C6_FlyquantAddSub ==
    (op.name \in {"add", "sub"} /\ IsFlyquant(op.a))
    => IF get_dimensions(op.a) = get_dimensions(op.b)
       THEN /\ res.status = "ok"
            /\ res.v.value = IF op.name = "add"
                             THEN RatAdd(op.a.value, op.b.value)
                             ELSE RatSub(op.a.value, op.b.value)
            /\ res.v.kind = SimplestKind(op.a.dim, op.a.fly)
            /\ res.v.dim = op.a.dim
            /\ res.v.fly = op.a.fly
       ELSE DimensionMismatch

\* C7: for a Flyquant x and an exponent e that is a number or a
\* dimensionless Quantity or Flyquant, x ** e is a Flyquant with the proper
\* Dimension and the fly exponents of x multiplied by e; for any other
\* exponent it fails with DimensionMismatch.
C7_FlyquantPower ==
    (op.name = "pow" /\ IsFlyquant(op.a))
    => IF get_dimensions(op.b) = <<Dimensionless, EmptyFly>>
       THEN (op.a.value = Zero /\ op.b.value.n < 0)
            \/ /\ res.status = "ok"
               /\ res.v.kind = "flyquant"
               /\ res.v.dim = [i \in 1..NDims |-> op.a.dim[i] * op.b.value.n]
               /\ \A k \in DOMAIN op.a.fly :
                     FlyGet(res.v.fly, k) = op.a.fly[k] * op.b.value.n
       ELSE DimensionMismatch

C9_ConversionDimensionCheck ==
    (op.name = "parse_in" /\ PyDiv(op.a, op.b).status = "ok")
    => IF false_requests THEN ~DimensionMismatch
       ELSE IF is_dimensionless(PyDiv(op.a, op.b).v)
            THEN res.status = "ok"
            ELSE DimensionMismatch

(***************************************************************************)
(* Properties of ParseHistory (SpecHistory)                                *)
(***************************************************************************)
Min(a, b) == IF a < b THEN a ELSE b

\* C10: after n add calls on a fresh ParseHistory (and no delete),
\* length() = min(n, 200) and the log is exactly the last min(n, 200) added
\* strings in insertion order; length() never exceeds 200.
C10_HistoryBounded ==
    /\ ParseHistory_length(history) <= 200
    /\ ~deleted =>
          LET n == Len(added)
              m == Min(n, 200)
          IN  /\ ParseHistory_length(history) = m
              /\ history = [i \in 1..m |-> added[n - m + i]]

\* after 250 adds read(0) returned the 51st added string
C10_Witness ==
    /\ ~deleted
    /\ Len(added) = 250
    /\ readres = [status |-> "ok", pos |-> 0, string |-> added[51]]
    /\ ParseHistory_length(history) = 200

(***************************************************************************)
(* Properties of a parsing session (SpecSession)                           *)
(***************************************************************************)
IsName(s) == Len(s) > 0 /\ \A i \in 1..Len(s) : s[i] \in Letters

\* '#n' for a decimal integer n
IsReference(s) ==
    Len(s) > 1 /\ s[1] = "#" /\ \A i \in 2..Len(s) : s[i] \in DigitChars

\* the index of the first "=" of s
EqualsSign(s) == CHOOSE i \in 1..Len(s) : s[i] = "=" /\ \A j \in 1..(i - 1) : s[j] # "="

IsAssignment(s) == \E i \in 1..Len(s) : s[i] = "="

\* the name and the expression of '<name> = <expr>'
AssignedName(s) ==
    SelectSeq(SubSeq(s, 1, EqualsSign(s) - 1), LAMBDA c : c \notin Whitespace)

AssignedExpression(s) == SubSeq(s, EqualsSign(s) + 1, Len(s))

\* C11: every call parse(s, h) appends the stripped input s to h as its
\* newest entry before any parsing or evaluation starts, so after the call h
\* contains that entry whether the call returned a result or failed with an
\* error; h then holds exactly the stripped inputs of all calls, in order.
C11_InputLoggedFirst ==
    op.name = "parse"
    => /\ ParseHistory_length(history) > 0
       /\ history[Len(history)] = strip(op.a)
       /\ history = added

\* the failing input '(2 ' was logged as '(2'
C11_Witness ==
    /\ op.name = "parse"
    /\ op.a = <<"(", "2", " ">>
    /\ res.status = "ParseError"
    /\ Len(history) = 2
    /\ history[2] = <<"(", "2">>

\* C12: when parse(s, h) evaluates a '#n' reference the nested parse works
\* on a copy of h: afterwards the log of h differs from its state before the
\* call only by the one entry s, and h.defined_variables is unchanged by the
\* bindings made inside the referenced entry, at any nesting depth.
C12_ReferenceIsolated ==
    [][(added' # added /\ IsReference(strip(input')))
          => /\ history' = Append(history, strip(input'))
             /\ defined_variables' = defined_variables]_vars

\* '#0' evaluated the entry 'x = 3' to 3 while x stays bound to 2 in h
C12_Witness ==
    /\ op.name = "parse"
    /\ op.a = <<"#", "0">>
    /\ history = <<<<"x", " ", "=", " ", "3">>, <<"x", " ", "=", " ", "2">>, <<"#", "0">>>>
    /\ res.status = "ok"
    /\ res.v = Integer(3)
    /\ <<"x">> \in DOMAIN defined_variables
    /\ defined_variables[<<"x">>] = Integer(2)

\* an outcome without its history string
Valued(r) == [r EXCEPT !.echo = << >>]

\* C13: read(n), and therefore a '#n' reference during parse, gives the n-th
\* logged input (0-indexed, oldest first) when 0 <= n < length() and
\* otherwise fails with the history-out-of-range error, leaving the log and
\* the variable bindings unchanged; for '#n' the length is that of the
\* history after the input being parsed has been appended, and the value of
\* the reference is that of the n-th input parsed on a copy of h.
C13_HistoryRange ==
    [][/\ readres'.status # "none"
          => /\ history' = history
             /\ defined_variables' = defined_variables
             /\ IF 0 <= readres'.pos /\ readres'.pos < Len(history)
                THEN /\ readres'.status = "ok"
                     /\ readres'.string = history[readres'.pos + 1]
                ELSE readres'.status = "ParseError"
       /\ (added' # added /\ IsReference(strip(input')))
          => LET n == int(Tail(strip(input')))
                 h == [ParseHistory EXCEPT !.history = history',
                                           !.defined_variables = defined_variables]
                 new_p == [QuantityParser(FALSE, TRUE, FALSE) EXCEPT
                              !.depth = 1, !.order = dict_order]
             IN  IF n < Len(history')
                 THEN Valued(res') = Valued(Outcome(
                          QuantityParser_parse(new_p, history'[n + 1],
                                               ParseHistory_copy(h))))
                 ELSE /\ res'.status = "ParseError"
                      /\ res'.msg = "History retrieval out of range"
                      /\ history' = Append(history, strip(input'))
                      /\ defined_variables' = defined_variables]_vars

\* '#1' as the first input: the log has the entry 0 only, 1 is out of range
C13_Witness ==
    /\ op.name = "parse"
    /\ op.a = <<"#", "1">>
    /\ Len(history) = 1
    /\ res.status = "ParseError"
    /\ res.msg = "History retrieval out of range"

\* C14: after parse('<name> = <expr>', h) succeeds, h.defined_variables[name]
\* equals the value of <expr>; every later parse with h resolves the word
\* <name> to that value until another assignment rebinds it (only a
\* successful assignment changes the bindings, and only at its name); a
\* parse with another ParseHistory does not see the binding.
C14_VariablesPersist ==
    [][/\ (added' # added /\ IsAssignment(input') /\ res'.status = "ok")
          => /\ AssignedName(input') \in DOMAIN defined_variables'
             /\ defined_variables'[AssignedName(input')] = res'.v
             /\ res'.v = parse(AssignedExpression(input')).v
       /\ (added' # added /\ strip(input') \in DOMAIN defined_variables)
          => /\ res'.status = "ok"
             /\ res'.v = defined_variables[strip(input')]
       /\ \A name \in DOMAIN defined_variables :
             \/ /\ name \in DOMAIN defined_variables'
                /\ defined_variables'[name] = defined_variables[name]
             \/ /\ added' # added
                /\ IsAssignment(input')
                /\ res'.status = "ok"
                /\ name = AssignedName(input')
       /\ \A name \in DOMAIN defined_variables' \ DOMAIN defined_variables :
             added' # added /\ IsAssignment(input') /\ res'.status = "ok"
                /\ name = AssignedName(input')
       /\ op'.name = "parse_fresh"
          => /\ res'.v = PyMul(Integer(1), Flydim(op'.a)).v
             /\ res'.v # defined_variables[op'.a]]_vars

\* after 'x = 3' and 'x = 2' the word x is 2
C14_Witness ==
    /\ op.name = "parse"
    /\ op.a = <<" ", "x">>
    /\ history = <<<<"x", " ", "=", " ", "3">>, <<"x", " ", "=", " ", "2">>, <<"x">>>>
    /\ res.status = "ok"
    /\ res.v = Integer(2)
    /\ defined_variables[<<"x">>] = Integer(2)

(***************************************************************************)
(* Properties of Dimension (SpecDimension)                                 *)
(***************************************************************************)
\* C15: Dimensions form an abelian group under multiplication: for all
\* Dimensions a, b, c, a*b == b*a, (a*b)*c == a*(b*c), a times the
\* dimensionless Dimension is a, a divided by a (a times its inverse a**-1)
\* is dimensionless, and a**0 is dimensionless; == holds exactly when the
\* seven exponents are equal one by one.
C15_DimensionGroup ==
    \A c \in BaseDimensions \cup {Dimensionless, x} :
        /\ Dimension__eq__(Dimension__mul__(x, y), Dimension__mul__(y, x))
        /\ Dimension__eq__(Dimension__mul__(Dimension__mul__(x, y), c),
                           Dimension__mul__(x, Dimension__mul__(y, c)))
        /\ Dimension__eq__(Dimension__mul__(x, Dimensionless), x)
        /\ Dimension_is_dimensionless(Dimension__div__(x, x))
        /\ Dimension_is_dimensionless(Dimension__mul__(x, Dimension__pow__(x, -1)))
        /\ Dimension_is_dimensionless(Dimension__pow__(x, 0))
        /\ Dimension__eq__(x, c) <=> (\A i \in 1..NDims : x[i] = c[i])

\* x = length * luminosity / time^2 was built by the operations
C15_Witness ==
    x = [i \in 1..NDims |-> IF i = 1 THEN 1 ELSE IF i = 3 THEN -2
                            ELSE IF i = 7 THEN 1 ELSE 0]

InputWord == imperial(strip(op.a))

\* a remainder that resolves: a unit symbol, a name of the table, or the
\* plural of such a name
Resolves(r, table) ==
    \/ r \in DOMAIN UNIT_SYMBOLS
    \/ r \in DOMAIN table
    \/ Len(r) > 0 /\ r[Len(r)] = "s" /\ SubSeq(r, 1, Len(r) - 1) \in DOMAIN table

Resolved(r, table) ==
    IF r \in DOMAIN UNIT_SYMBOLS THEN table[UNIT_SYMBOLS[r]]
    ELSE IF r \in DOMAIN table THEN table[r]
    ELSE table[SubSeq(r, 1, Len(r) - 1)]

\* the prefixes of a table that word starts with and that leave a remainder
\* that resolves
Prefixes(prefixes, word, table) ==
    {i \in 1..Len(prefixes) :
        /\ StartsAt(word, 0, prefixes[i][1])
        /\ Resolves(From(word, Len(prefixes[i][1])), table)}

Scaled(prefixes, i, word, table) ==
    PyMul(PowerOfTen(prefixes[i][2]),
          Resolved(From(word, Len(prefixes[i][1])), table)).v

\* C17: parse_word tries its strategies strictly in this order and returns
\* the first hit: (1) the exact word in the merged name table (named
\* variables over fly variables over word-numbers over unit names); (2) the
\* exact unit symbol; (3) the word without one trailing 's', looked up as in
\* (1); (4) a long-form SI prefix, then a short-form SI prefix, followed by a
\* remainder that resolves, scaled by the prefix's power of ten; (5) a new
\* on-the-fly dimension if on_the_fly is enabled (and else an error).
C17_WordResolution ==
    (op.name = "parse" /\ IsName(InputWord))
    => LET word == InputWord
           table == MergedDict(EmptyFly, EmptyFly)
           long == Prefixes(SI_PREFIXES, word, table)
           short == Prefixes(SI_PREFIXES_SHORT, word, table)
           value(v) == res.status = "ok" /\ res.v = PyMul(Integer(1), v).v
       IN  IF word \in DOMAIN table THEN value(table[word])
           ELSE IF word \in DOMAIN UNIT_SYMBOLS
           THEN value(ALL_UNITS[UNIT_SYMBOLS[word]])
           ELSE IF word[Len(word)] = "s"
                     /\ SubSeq(word, 1, Len(word) - 1) \in DOMAIN table
           THEN value(table[SubSeq(word, 1, Len(word) - 1)])
           ELSE IF long # {}
           THEN \E i \in long : value(Scaled(SI_PREFIXES, i, word, table))
           ELSE IF short # {}
           THEN \E i \in short : value(Scaled(SI_PREFIXES_SHORT, i, word, table))
           ELSE IF on_the_fly THEN value(Flydim(word))
           ELSE res.status = "ParseError"

\* the value a word of Words resolves to in a new parser
WordValue(w) ==
    parse_word([QuantityParser(html, on_the_fly, false_requests) EXCEPT
                   !.string = w, !.order = dict_order])

\* (a / w1) * w2 or a / (w1 * w2) for the values of the words
Quotient(a, w1, w2, tight) ==
    LET v1 == WordValue(w1).v
        v2 == WordValue(w2).v
        n == Integer(int(a))
    IN  IF tight THEN PyDiv(n, PyMul(v1, v2).v) ELSE PyMul(PyDiv(n, v1).v, v2)

\* C18: implicit multiplication by whitespace binds tighter than explicit
\* '*' and '/': for a number a and words w1, w2 (that resolve), parse('a /
\* w1 w2') evaluates to a / (w1 * w2), whereas parse('a / w1 * w2')
\* evaluates to (a / w1) * w2.
C18_JuxtapositionBindsTighter ==
    (op.name = "parse" /\ op.a \in Products)
    => \A a \in Literals, w1 \in Words, w2 \in Words :
          (WordValue(w1).status = "ok" /\ WordValue(w2).status = "ok")
          => /\ op.a = a \o <<" ", "/", " ">> \o w1 \o <<" ">> \o w2
                => /\ res.status = Quotient(a, w1, w2, TRUE).status
                   /\ res.v = Quotient(a, w1, w2, TRUE).v
             /\ op.a = a \o <<" ", "/", " ">> \o w1 \o <<" ", "*", " ">> \o w2
                => /\ res.status = Quotient(a, w1, w2, FALSE).status
                   /\ res.v = Quotient(a, w1, w2, FALSE).v

\* '3 / meter second' is 3 m^-1 s^-1
C18_Witness ==
    /\ op.name = "parse"
    /\ op.a = <<"3", " ", "/", " ", "m", "e", "t", "e", "r", " ", "s", "e", "c", "o", "n", "d">>
    /\ res.status = "ok"
    /\ res.v = Quantity_with_dimensions(Rat(3, 1),
                   [i \in 1..NDims |-> IF i \in {1, 3} THEN -1 ELSE 0])

\* the binding strength of an operator: 1 for + -, 2 for * /, 3 for ^ **
Level(o) ==
    IF strip(o) \in {<<"+">>, <<"-">>} THEN 1 ELSE IF strip(o) \in {<<"*">>, <<"/">>} THEN 2 ELSE 3

Apply(o, l, r) ==
    CASE strip(o) = <<"+">> -> PyAdd(l, r)
      [] strip(o) = <<"-">> -> PySub(l, r)
      [] strip(o) = <<"*">> -> PyMul(l, r)
      [] strip(o) = <<"/">> -> PyDiv(l, r)
      [] OTHER -> PyPow(l, r)

\* the reference evaluation of 'a o1 b o2 c'
Reference(a, o1, b, o2, c) ==
    IF Level(o1) > Level(o2) \/ (Level(o1) = Level(o2) /\ Level(o1) < 3)
    THEN LET l == Apply(o1, Integer(int(a)), Integer(int(b)))
         IN  IF l.status # "ok" THEN l ELSE Apply(o2, l.v, Integer(int(c)))
    ELSE LET r == Apply(o2, Integer(int(b)), Integer(int(c)))
         IN  IF r.status # "ok" THEN r ELSE Apply(o1, Integer(int(a)), r.v)

\* C19: '+' and '-' bind loosest and are left-associative, '*' and '/' bind
\* tighter and are left-associative, '**' and '^' bind tighter still and are
\* right-associative; the parsed value of 'a o1 b' and of 'a o1 b o2 c' over
\* number literals equals the value of that reference evaluation (whenever
\* the reference evaluation is within the numbers of the model).
C19_PrecedenceAndAssociativity ==
    (op.name = "parse" /\ op.a \in Expressions)
    => \A a \in Literals, o1 \in Operators, b \in Literals :
          /\ op.a = a \o o1 \o b
             => /\ res.status = "ok"
                /\ res.v = Apply(o1, Integer(int(a)), Integer(int(b))).v
          /\ \A o2 \in Operators, c \in Literals :
                (op.a = a \o o1 \o b \o o2 \o c
                    /\ Reference(a, o1, b, o2, c).status # "OutOfModel")
                => /\ res.status = Reference(a, o1, b, o2, c).status
                   /\ res.v = Reference(a, o1, b, o2, c).v

\* '2 ^ 2 ^ 3' is 2^(2^3) = 256 and not (2^2)^3 = 64
C19_Witness ==
    /\ op.name = "parse"
    /\ op.a = <<"2", " ", "^", " ", "2", " ", "^", " ", "3">>
    /\ res.status = "ok"
    /\ res.v = Integer(256)

\* the number of characters c in s
Count(s, c) == Cardinality({i \in 1..Len(s) : s[i] = c})

\* an input of one of the kinds C20 lists: an unmatched parenthesis, a
\* missing operand after the last operator (a lone sign included), a number
\* ending in its decimal point, no integer after '#'
ViolatesGrammar(s) ==
    LET t == strip(s)
    IN  \/ Count(t, "(") # Count(t, ")")
        \/ Len(t) > 0 /\ t[Len(t)] \in {"+", "-", "*", "/", "^"}
        \/ Len(t) > 1 /\ t[Len(t)] = "." /\ t[Len(t) - 1] \in DigitChars
        \/ \E i \in 1..Len(t) :
              t[i] = "#" /\ (i = Len(t) \/ t[i + 1] \notin DigitChars \cup Whitespace)

\* C20: every input that violates the grammar (unmatched parenthesis,
\* missing operand such as '2 +' or a lone '-', malformed number such as
\* '3.', missing integer after '#') makes parse fail with a ParseError
\* carrying the character position, and with no other kind of exception.
C20_GrammarErrorsAreParseErrors ==
    (op.name = "parse" /\ ViolatesGrammar(op.a))
    => /\ res.status = "ParseError"
       /\ res.at >= 0


(***************************************************************************)
(* Properties of a failed parse (SpecSession)                              *)
(***************************************************************************)
\* C21: a parse(s, h) that fails, with whatever error, leaves
\* h.defined_variables as it was before the call; all it changes in h is the
\* log, which gains the entry s.
C21_FailureLeavesBindings ==
    [][(added' # added /\ res'.status # "ok")
          => /\ defined_variables' = defined_variables
             /\ history' = ParseHistory_add(history, strip(input'))]_vars

\* 'x = 2 + s' failed on the sum after x had been bound to 3
C21_Witness ==
    /\ op.name = "parse"
    /\ op.a = <<"x", " ", "=", " ", "2", " ", "+", " ", "s">>
    /\ res.status = "DimensionMismatchError"
    /\ <<"x">> \in DOMAIN defined_variables
    /\ defined_variables[<<"x">>] = Integer(3)
    /\ history[Len(history)] = <<"x", " ", "=", " ", "2", " ", "+", " ", "s">>

(***************************************************************************)
(* Properties of the on-the-fly dimensions (SpecFlydim)                    *)
(***************************************************************************)
\* the identifiers of the Flydim v that carry the exponent 0
ZeroExponents(v) == {k \in DOMAIN v.fly : v.fly[k] = 0}

\* C22: after any sequence of products, quotients, inversions and powers (by
\* any number, 0 included) the Flydim maps no identifier to the exponent 0,
\* so that it is dimensionless exactly when all its exponents cancel.
C22_FlydimZeroPruned ==
    /\ ZeroExponents(x) = {}
    /\ Flydim_is_dimensionless(x.fly) <=> (\A k \in DOMAIN x.fly : x.fly[k] = 0)

(***************************************************************************)
(* Properties of the Flyquant operands (SpecAlgebra)                       *)
(***************************************************************************)
\* C26: an operation on a Flyquant does not modify its operands: after the
\* difference x - y (which negates a Flyquant y, or the Flyquant of the two
\* when only the right one is a Flyquant) the value, the dimensions and the
\* fly part of x and of y are what they were before.
C26_OperandsUnchanged ==
    [][op'.name = "sub" => (x' = x /\ y' = y)]_vars

(***************************************************************************)
(* Properties of the number literals (SpecSyntax)                          *)
(***************************************************************************)
\* the index of the first character of s that is in set, Len(s) + 1 if none
Find(s, set) ==
    IF \E i \in 1..Len(s) : s[i] \in set
    THEN CHOOSE i \in 1..Len(s) : s[i] \in set /\ \A j \in 1..(i - 1) : s[j] \notin set
    ELSE Len(s) + 1

\* the three parts of the literal I.F or I.FeN
IntegerDigits(s) == SubSeq(s, 1, Find(s, {"."}) - 1)
FractionDigits(s) == SubSeq(s, Find(s, {"."}) + 1, Find(s, {"e", "E"}) - 1)
ExponentDigits(s) == SubSeq(s, Find(s, {"e", "E"}) + 1, Len(s))

\* the N of e+N, e-N or eN; 0 without an exponent part
ExponentValue(s) ==
    LET e == ExponentDigits(s)
    IN  IF e = << >> THEN 0
        ELSE IF e[1] = "-" THEN -int(Tail(e))
        ELSE IF e[1] = "+" THEN int(Tail(e))
        ELSE int(e)

\* I + F / 10^len(F), times 10^N
DecimalValue(s) ==
    LET scale == IntPow(10, Len(FractionDigits(s)))
        mantissa == Rat(int(IntegerDigits(s)) * scale + int(FractionDigits(s)), scale)
        N == ExponentValue(s)
    IN  IF N >= 0 THEN RatMul(mantissa, Rat(IntPow(10, N), 1))
        ELSE RatMul(mantissa, Rat(1, IntPow(10, -N)))

\* C23: the value of a literal I.F, with or without an exponent part, is
\* I + F / 10^len(F) times the power of ten of the exponent part.
C23_DecimalValue ==
    (op.name = "parse" /\ op.a \in NumberLiterals)
        => /\ res.status = "ok"
           /\ res.v.value = DecimalValue(op.a)

(***************************************************************************)
(* Properties of the best unit (SpecBestUnit)                              *)
(***************************************************************************)
\* the registry objs has a unit of the dimensions of q
HasUnitFor(objs, q) == \E i \in 1..Len(objs) : objs[i].dim = q.dim

\* the registries that a lookup without a list consults, in their order
DefaultRegistries == <<standard_unit_register, registry, additional_unit_register>>

\* the registries consulted by the last lookup
Consulted == IF op.b = << >> THEN DefaultRegistries ELSE op.b

C25_ParseTerminates ==
    op.name = "parse" => res.status # "RuntimeError"

\* C27: a parser created with on_the_fly disabled creates no on-the-fly
\* dimension: a word that nothing resolves makes the parse fail, also when
\* the word stands in a logged entry that a '#n' reference evaluates, so no
\* value that it returns has a fly part.
C27_NoFlydimWhenDisabled ==
    (op.name = "parse" /\ ~on_the_fly /\ res.status = "ok")
        => res.v.fly = EmptyFly

(***************************************************************************)
(* Properties of the end of the input (SpecSyntax)                         *)
(***************************************************************************)
\* the parser object and the outcome of parse_query for the input s of the
\* last call
QueryOf(s) ==
    parse_query([QuantityParser(html, on_the_fly, false_requests) EXCEPT
                    !.order = dict_order,
                    !.history = [ParseHistory EXCEPT !.history = <<strip(s)>>],
                    !.string = parse_string(strip(s))])

\* C28: a parse that returns a result has consumed the whole preprocessed
\* input: the cursor, after the blanks that follow it, is at the end of the
\* string; an input with text left over fails instead.
C28_WholeInputConsumed ==
    (op.name = "parse" /\ res.status = "ok")
        => /\ QueryOf(op.a).v = res.v
           /\ skip_whitespace(QueryOf(op.a).self).pos = Len(QueryOf(op.a).self.string)

(***************************************************************************)
(* Properties of the words made on the fly (SpecSyntax)                    *)
(***************************************************************************)
\* C30: a word w that is no unit, number word or variable and its plural ws
\* stand for the same on-the-fly dimension whichever comes first in the
\* input: 'a w + b ws' and 'b ws + a w' both succeed, with the same value.
C30_PluralOrderIndependent ==
    (op.name = "parse" /\ on_the_fly)
        => \A a \in Literals, w \in NewWords, b \in Literals :
               op.a \in {SingularFirst(a, w, b), PluralFirst(a, w, b)}
                   => /\ res.status = "ok"
                      /\ res.v = parse(SingularFirst(a, w, b)).v
                      /\ res.v = parse(PluralFirst(a, w, b)).v

(***************************************************************************)
(* Properties of the history string (SpecSyntax)                           *)
(***************************************************************************)
\* an input without a query operator
IsPlain(s) == \A i \in 1..Len(s) : s[i] \notin {"=", "%"}

\* the history string of the last call parsed by a parser built as the one
\* that made it, on a history with the same bindings
EchoParse ==
    QuantityParser_parse([QuantityParser(html, on_the_fly, false_requests) EXCEPT
                             !.order = dict_order],
                         res.echo,
                         [ParseHistory EXCEPT !.history = history,
                                              !.defined_variables = defined_variables])

\* a == b for two values: an int equals the float of the same value
SameValue(a, b) ==
    \/ a = b
    \/ is_scalar_type(a) /\ is_scalar_type(b) /\ a.value = b.value

\* C29: for an input that parses as a plain expression with a parser that
\* is not in HTML mode, parsing the history string returned as the third
\* entry, with the same bindings, succeeds and yields the value of the
\* input.
C29_EchoRoundTrip ==
    (op.name = "parse" /\ ~html /\ res.status = "ok"
        /\ IsPlain(parse_string(strip(op.a))))
        => /\ EchoParse.status = "ok"
           /\ SameValue(EchoParse.v, res.v)

====
